---- MODULE Spec2Model ----
(***************************************************************************)
(* A model of the naming-convention engine of src/src/naming: the Token    *)
(* and TokenNumber classes of naming.py and of tokens.py, the Rule class,  *)
(* the rule and token registries, the top-level solve and parse, and the   *)
(* session persistence of naming.py.                                       *)
(*                                                                         *)
(* Conventions.  The text of a Python str is the sequence of its           *)
(* characters, one string of length one per character ('char' is           *)
(* <<"c", "h", "a", "r">>), so that len, isdigit, zfill, slicing, split    *)
(* and join are computed on the real length.  A Python object is a record  *)
(* tagged by its type: PyStr(text) is a str and PyUnicode(text) the        *)
(* unicode of Python 2, which json.load builds for every string it reads,  *)
(* the keys of objects and the names included.  An exception leaving a     *)
(* call is the record Raise(class).                                        *)
(* A dict whose keys a caller can get back (the options of a token, the    *)
(* dict Rule.parse returns) is the sequence of its items [k, v] in         *)
(* insertion order, k and v Python objects.  The registries _tokens and    *)
(* _rules are functions from the text of a name to the object registered:  *)
(* 'a' and u'a' are the same key of a Python 2 dict.                       *)
(* Definitions of tokens.py carry the prefix tokens_; unprefixed           *)
(* definitions are those of naming.py.                                     *)
(***************************************************************************)
EXTENDS Integers, Sequences, FiniteSets, TLC

VARIABLES
    py,             \* major version of the interpreter running the package (setup.py)
    _rules,         \* naming.py: _rules, the rule registry with its '_active' entry
    _tokens,        \* naming.py: _tokens, the token registry
    tokens_tokens,  \* tokens.py: _tokens, the token registry of that module
    disk,           \* the session directory: file name -> parsed JSON content
    ret,            \* the last call made by the client and what it returned
    hist            \* history: the arguments the client gave when it created a token

vars == <<py, _rules, _tokens, tokens_tokens, disk, ret, hist>>

----------------------------------------------------------------------------
(* Bounds of the model *)

MaxNumber == 12
MaxPadding == 2
MaxAffixLen == 1
MaxArgs == 2
MaxFields == 3

----------------------------------------------------------------------------
(* Python objects *)

None == [type |-> "NoneType"]
PyStr(s) == [type |-> "str", val |-> s]
PyUnicode(s) == [type |-> "unicode", val |-> s]
PyInt(n) == [type |-> "int", val |-> n]
PyBool(b) == [type |-> "bool", val |-> b]
Raise(e) == [type |-> "raise", exc |-> e]

IsRaise(v) == v.type = "raise"

\* Python truthiness of the objects the code tests with `if x` / `not x`
Truthy(v) ==
    CASE v.type = "NoneType" -> FALSE
      [] v.type \in {"str", "unicode"} -> v.val # <<>>
      [] v.type = "int" -> v.val # 0
      [] v.type = "bool" -> v.val
      [] OTHER -> TRUE

RECURSIVE Perms(_)
Perms(S) == IF S = {} THEN {<<>>}
            ELSE UNION {{<<x>> \o p : p \in Perms(S \ {x})} : x \in S}

\* the keys of the dicts the package iterates: Token options and add_token's kwargs
kLeft == PyStr(<<"l", "e", "f", "t">>)
kRight == PyStr(<<"r", "i", "g", "h", "t">>)
kDefault == PyStr(<<"d", "e", "f", "a", "u", "l", "t">>)
OptionKeys == {kLeft, kRight}
IteratedKeys == {kLeft.val, kRight.val, kDefault.val}

\* setup.py: python_requires '>=2.7, <4'.  Python 3.7 iterates a dict in insertion
\* order; Python 2.7 iterates it in the order of its hash table, modelled as an
\* order over the keys (HashOrders) that the caller of an operation cannot know.

----------------------------------------------------------------------------
(* Python dict: the sequence of its items [k, v] in insertion order *)

\* a == b: a str and a unicode of the same text are equal (and hash alike)
PyEq(a, b) ==
    IF a.type \in {"str", "unicode"} /\ b.type \in {"str", "unicode"}
    THEN a.val = b.val
    ELSE a = b

DictKeys(d) == {d[i].k : i \in 1..Len(d)}
\* key in d
DictHas(d, key) == \E i \in 1..Len(d) : PyEq(d[i].k, key)
DictPos(d, key) == CHOOSE i \in 1..Len(d) : PyEq(d[i].k, key)
\* d.get(key)
DictGet(d, key) == IF DictHas(d, key) THEN d[DictPos(d, key)].v ELSE None
\* d[key] = value: a key that is already in d stays the object it was
DictSet(d, key, value) ==
    IF DictHas(d, key) THEN [d EXCEPT ![DictPos(d, key)].v = value]
    ELSE Append(d, [k |-> key, v |-> value])
\* del d[key]
DictDel(d, key) == SelectSeq(d, LAMBDA it : ~PyEq(it.k, key))

\* the place of a key in the hash order of the build: by its text
HashRank(build, key) == CHOOSE i \in 1..Len(build.hash) : build.hash[i] = key.val

RECURSIVE SortByHash(_, _)
SortByHash(build, d) ==
    IF d = <<>> THEN <<>>
    ELSE LET i == CHOOSE i \in 1..Len(d) :
                    \A j \in 1..Len(d) : HashRank(build, d[i].k) <= HashRank(build, d[j].k)
         IN  <<d[i]>> \o SortByHash(build, DictDel(d, d[i].k))

\* six.iteritems(d), d.keys(), d.values(): the items in iteration order
Items(build, d) == IF build.version = 3 THEN d ELSE SortByHash(build, d)

----------------------------------------------------------------------------
(* Python str and int built-ins used by the package *)

Digits == <<"0", "1", "2", "3", "4", "5", "6", "7", "8", "9">>

IsDigitChar(c) == \E i \in 1..10 : Digits[i] = c

DigitValue(c) == (CHOOSE i \in 1..10 : Digits[i] = c) - 1

\* str.isdigit(): non-empty and every character a digit
isdigit(s) == s # <<>> /\ \A i \in 1..Len(s) : IsDigitChar(s[i])

RECURSIVE NatStr(_)
NatStr(n) == IF n < 10 THEN <<Digits[n + 1]>>
             ELSE NatStr(n \div 10) \o <<Digits[(n % 10) + 1]>>

\* str(number) of an int
IntStr(n) == IF n < 0 THEN <<"-">> \o NatStr(0 - n) ELSE NatStr(n)

RECURSIVE Zeros(_)
Zeros(k) == IF k <= 0 THEN <<>> ELSE <<"0">> \o Zeros(k - 1)

\* str.zfill(width): zeros on the left up to width, after a leading sign
zfill(s, width) ==
    IF Len(s) >= width THEN s
    ELSE IF s # <<>> /\ s[1] \in {"-", "+"}
         THEN <<s[1]>> \o Zeros(width - Len(s)) \o Tail(s)
         ELSE Zeros(width - Len(s)) \o s

RECURSIVE DigitsValue(_)
DigitsValue(s) == IF s = <<>> THEN 0
                  ELSE 10 * DigitsValue(SubSeq(s, 1, Len(s) - 1)) + DigitValue(s[Len(s)])

RemoveChar(s, c) == SelectSeq(s, LAMBDA x : x # c)

\* Python 3.6+ accepts single underscores between the digits of an int literal
UnderscoreGrouped(s) ==
    /\ s # <<>>
    /\ IsDigitChar(s[1]) /\ IsDigitChar(s[Len(s)])
    /\ \A i \in 1..Len(s) : IsDigitChar(s[i]) \/ s[i] = "_"
    /\ \A i \in 1..(Len(s) - 1) : ~(s[i] = "_" /\ s[i + 1] = "_")

\* int(s) with an optional sign; ValueError on anything else
int(build, s) ==
    LET body == IF s # <<>> /\ s[1] \in {"-", "+"} THEN Tail(s) ELSE s
        sign == IF s # <<>> /\ s[1] = "-" THEN 0 - 1 ELSE 1
    IN  IF isdigit(body) THEN PyInt(sign * DigitsValue(body))
        ELSE IF build.version = 3 /\ UnderscoreGrouped(body)
             THEN PyInt(sign * DigitsValue(RemoveChar(body, "_")))
             ELSE Raise("ValueError")

Reverse(s) == [i \in 1..Len(s) |-> s[Len(s) + 1 - i]]

\* s[start:stop] for a start >= 0 and any stop, as Python clips them
Slice(s, start, stop) ==
    LET n == Len(s)
        hi0 == IF stop < 0 THEN stop + n ELSE stop
        hi == IF hi0 < 0 THEN 0 ELSE IF hi0 > n THEN n ELSE hi0
        lo == IF start > n THEN n ELSE start
    IN  IF lo >= hi THEN <<>> ELSE SubSeq(s, lo + 1, hi)

\* s[start:]
SliceFrom(s, start) == Slice(s, start, Len(s))

----------------------------------------------------------------------------
(* str.format of one argument *)

\* '{}'.format(x)
Format(x) ==
    CASE x.type \in {"str", "unicode"} -> x.val
      [] x.type = "int" -> IntStr(x.val)
      [] x.type = "bool" -> IF x.val THEN <<"T", "r", "u", "e">>
                            ELSE <<"F", "a", "l", "s", "e">>
      [] OTHER -> <<"N", "o", "n", "e">>

\* the result of a method that may update its object: the object after the call
\* and the value returned (or the exception raised)
Res(self, val) == [self |-> self, val |-> val]

kPrefix == PyStr(<<"p", "r", "e", "f", "i", "x">>)
kSuffix == PyStr(<<"s", "u", "f", "f", "i", "x">>)
kPadding == PyStr(<<"p", "a", "d", "d", "i", "n", "g">>)

----------------------------------------------------------------------------
(* tokens.py: class Token *)

\* Token.__init__
tokens_Token(name) ==
    [type |-> "Token", _name |-> name, _default |-> None, _options |-> <<>>]

\* Token.add_option
tokens_Token_add_option(self, key, value) ==
    [self EXCEPT !._options = DictSet(self._options, key, value)]

\* Token.default (getter): caches the first value of the options
tokens_Token_default(build, self) ==
    IF self._default = None /\ Len(self._options) >= 1
    THEN IF build.version = 3
         THEN Res(self, Raise("TypeError"))  \* dict_values is not subscriptable
         ELSE LET first == Items(build, self._options)[1].v
              IN  Res([self EXCEPT !._default = first], first)
    ELSE Res(self, self._default)

\* Token.default (setter)
tokens_Token_set_default(self, d) ==
    IF Len(self._options) >= 1
       /\ \E i \in 1..Len(self._options) : PyEq(self._options[i].v, d)
    THEN [self EXCEPT !._default = d]
    ELSE self

\* Token.name (setter)
tokens_set_name(self, n) == [self EXCEPT !._name = n]

\* Token.required
tokens_Token_required(build, self) ==
    LET r == tokens_Token_default(build, self)
    IN  IF IsRaise(r.val) THEN r ELSE Res(r.self, PyBool(r.val = None))

\* the exceptions of Token.solve, with what their message is formatted from
RequiredError(self) ==
    [type |-> "raise", exc |-> "Exception", msg |-> "is required", token |-> self._name]
NotFoundError(self, name) ==
    [type |-> "raise", exc |-> "Exception", msg |-> "not found", token |-> self._name,
     name |-> name, options |-> DictKeys(self._options)]

\* Token.solve
tokens_Token_solve(build, self, name) ==
    LET r == tokens_Token_required(build, self)
    IN  IF IsRaise(r.val) THEN r
        ELSE IF r.val.val /\ Truthy(name) THEN Res(r.self, name)
        ELSE IF r.val.val /\ name = None THEN Res(r.self, RequiredError(self))
        ELSE IF ~r.val.val /\ Truthy(name)
        THEN IF ~DictHas(self._options, name)
             THEN Res(r.self, NotFoundError(self, name))
             ELSE Res(r.self, DictGet(self._options, name))
        ELSE IF ~r.val.val /\ ~Truthy(name)
        THEN Res(r.self, tokens_Token_default(build, r.self).val)
        ELSE Res(r.self, None)

\* the loop of Token.parse over the items from position i
RECURSIVE tokens_parse_loop(_, _, _)
tokens_parse_loop(items, i, value) ==
    IF i > Len(items) THEN value
    ELSE IF PyEq(items[i].v, value) THEN items[i].k
    ELSE tokens_parse_loop(items, i + 1, value)

\* Token.parse
tokens_Token_parse(build, self, value) ==
    IF Len(self._options) >= 1
    THEN tokens_parse_loop(Items(build, self._options), 1, value)
    ELSE value

----------------------------------------------------------------------------
(* tokens.py: class TokenNumber *)

\* TokenNumber.__init__
tokens_TokenNumber(name) ==
    [type |-> "TokenNumber", _name |-> name, _default |-> PyInt(1),
     _options |-> <<[k |-> kPrefix, v |-> PyStr(<<>>)],
                    [k |-> kSuffix, v |-> PyStr(<<>>)],
                    [k |-> kPadding, v |-> PyInt(3)]>>]

\* TokenNumber.name (setter)
tokens_TokenNumber_set_name(self, n) == [self EXCEPT !._name = n]

\* TokenNumber.padding, .prefix, .suffix (getters)
tokens_padding(self) == DictGet(self._options, kPadding)
tokens_prefix(self) == DictGet(self._options, kPrefix)
tokens_suffix(self) == DictGet(self._options, kSuffix)

\* TokenNumber.padding (setter)
tokens_set_padding(self, p) ==
    LET q == IF p <= 0 THEN 1 ELSE p
    IN  [self EXCEPT !._options = DictSet(self._options, kPadding, PyInt(q))]

\* the test of the prefix and suffix setters
tokens_affix_accepted(p) == p.type # "str" /\ ~isdigit(p.val)

\* TokenNumber.prefix (setter)
tokens_set_prefix(self, p) ==
    IF tokens_affix_accepted(p)
    THEN [self EXCEPT !._options = DictSet(self._options, kPrefix, p)]
    ELSE self

\* TokenNumber.suffix (setter)
tokens_set_suffix(self, s) ==
    IF tokens_affix_accepted(s)
    THEN [self EXCEPT !._options = DictSet(self._options, kSuffix, s)]
    ELSE self

\* TokenNumber.solve
tokens_TokenNumber_solve(self, number) ==
    LET numberStr == zfill(IntStr(number), tokens_padding(self).val)
    IN  PyStr(Format(tokens_prefix(self)) \o numberStr \o Format(tokens_suffix(self)))

\* the loops of TokenNumber.parse, from character i with prefix_index = idx
RECURSIVE tokens_scan(_, _, _)
tokens_scan(value, i, idx) ==
    IF i > Len(value) THEN idx
    ELSE IF IsDigitChar(value[i]) /\ idx = 0 THEN 0 - 1
    ELSE IF IsDigitChar(value[i]) /\ idx > 0 THEN idx
    ELSE tokens_scan(value, i + 1, idx + 1)

\* the return branches of TokenNumber.parse
tokens_parse_branches(build, value, prefix_index, suffix_index) ==
    IF prefix_index = 0 - 1 /\ suffix_index >= 0
    THEN int(build, Slice(value, 0, 0 - suffix_index))
    ELSE IF prefix_index >= 0 /\ suffix_index = 0 - 1
    THEN int(build, SliceFrom(value, prefix_index))
    ELSE IF prefix_index >= 0 /\ suffix_index >= 0
    THEN int(build, Slice(value, prefix_index, 0 - suffix_index))
    ELSE None

\* TokenNumber.parse (self is not read)
tokens_TokenNumber_parse(build, value) ==
    IF isdigit(value) THEN int(build, value)
    ELSE tokens_parse_branches(build, value, tokens_scan(value, 1, 0),
                               tokens_scan(Reverse(value), 1, 0))

----------------------------------------------------------------------------
(* tokens.py: the functions of the token registry *)

\* the loop of add_token over the iterated kwargs from position i
RECURSIVE tokens_add_token_loop(_, _, _)
tokens_add_token_loop(token, items, i) ==
    IF i > Len(items) THEN token
    ELSE IF PyEq(items[i].k, kDefault)
    THEN tokens_add_token_loop(tokens_Token_set_default(token, items[i].v), items, i + 1)
    ELSE tokens_add_token_loop(tokens_Token_add_option(token, items[i].k, items[i].v),
                               items, i + 1)

\* add_token: the token it builds
tokens_add_token(build, name, kwargs) ==
    tokens_add_token_loop(tokens_Token(name), Items(build, kwargs), 1)

\* add_token_number: the token it builds
tokens_add_token_number(name, prefix, suffix, padding) ==
    tokens_set_padding(
        tokens_set_suffix(tokens_set_prefix(tokens_TokenNumber(name), prefix), suffix),
        padding)

\* remove_token: the registry after the call and the value returned
tokens_remove_token(tokens, name) ==
    IF name \in DOMAIN tokens
    THEN [tokens |-> [n \in DOMAIN tokens \ {name} |-> tokens[n]], val |-> PyBool(TRUE)]
    ELSE [tokens |-> tokens, val |-> PyBool(FALSE)]

----------------------------------------------------------------------------
(* naming.py: class Token *)

\* Token.__init__
Token(name) ==
    [type |-> "Token", _name |-> name, _default |-> None, _options |-> <<>>]

\* Token.add_option
Token_add_option(self, key, value) ==
    [self EXCEPT !._options = DictSet(self._options, key, value)]

\* Token.default (getter): caches the first value of the options
Token_default(build, self) ==
    IF self._default = None /\ Len(self._options) >= 1
    THEN IF build.version = 3
         THEN Res(self, Raise("TypeError"))  \* dict_values is not subscriptable
         ELSE LET first == Items(build, self._options)[1].v
              IN  Res([self EXCEPT !._default = first], first)
    ELSE Res(self, self._default)

\* Token.default (setter)
Token_set_default(self, d) == [self EXCEPT !._default = d]

\* Token.required
Token_required(build, self) ==
    LET r == Token_default(build, self)
    IN  IF IsRaise(r.val) THEN r ELSE Res(r.self, PyBool(r.val = None))

\* Token.name (setter)
Token_set_name(self, n) == [self EXCEPT !._name = n]

\* Token.solve
Token_solve(build, self, name) ==
    IF name = None THEN Token_default(build, self)
    ELSE Res(self, DictGet(self._options, name))

\* the loop of Token.parse over the items from position i; falls off the end
RECURSIVE parse_loop(_, _, _)
parse_loop(items, i, value) ==
    IF i > Len(items) THEN None
    ELSE IF PyEq(items[i].v, value) THEN items[i].k
    ELSE parse_loop(items, i + 1, value)

\* Token.parse
Token_parse(build, self, value) == parse_loop(Items(build, self._options), 1, value)

----------------------------------------------------------------------------
(* naming.py: class TokenNumber(Token) *)

\* TokenNumber.__init__
TokenNumber(name) ==
    [type |-> "TokenNumber", _name |-> name, _default |-> None, _options |-> <<>>,
     _is_number |-> TRUE]

\* self._options[key]
option(self, key) ==
    IF DictHas(self._options, key) THEN DictGet(self._options, key) ELSE Raise("KeyError")

\* TokenNumber.padding, .prefix, .suffix (getters)
padding(self) == option(self, kPadding)
prefix(self) == option(self, kPrefix)
suffix(self) == option(self, kSuffix)

\* TokenNumber.padding (setter)
set_padding(self, p) ==
    LET q == IF p <= 0 THEN 1 ELSE p
    IN  [self EXCEPT !._options = DictSet(self._options, kPadding, PyInt(q))]

\* TokenNumber.prefix (setter)
set_prefix(self, p) == [self EXCEPT !._options = DictSet(self._options, kPrefix, p)]

\* TokenNumber.suffix (setter)
set_suffix(self, s) == [self EXCEPT !._options = DictSet(self._options, kSuffix, s)]

\* TokenNumber.default (getter): sets _default to 1 and returns it
TokenNumber_default(self) == Res([self EXCEPT !._default = PyInt(1)], PyInt(1))

\* TokenNumber.solve
TokenNumber_solve(self, number) ==
    IF IsRaise(padding(self)) THEN padding(self)
    ELSE IF padding(self).type # "int" THEN Raise("TypeError")
    ELSE IF IsRaise(prefix(self)) THEN prefix(self)
    ELSE IF IsRaise(suffix(self)) THEN suffix(self)
    ELSE LET numberStr == zfill(Format(number), padding(self).val)
         IN  PyStr(Format(prefix(self)) \o numberStr \o Format(suffix(self)))

\* the loops of TokenNumber.parse, from character i with prefix_index = idx
RECURSIVE scan(_, _, _)
scan(value, i, idx) ==
    IF i > Len(value) THEN idx
    ELSE IF IsDigitChar(value[i]) /\ idx = 0 THEN 0 - 1
    ELSE IF ~IsDigitChar(value[i]) THEN scan(value, i + 1, idx + 1)
    ELSE idx

\* parse_branches with the sign of the suffix slice forgotten: value[:suffix_index]
parse_branches_unsigned(build, value, prefix_index, suffix_index) ==
    IF prefix_index = 0 - 1 /\ suffix_index >= 0
    THEN int(build, Slice(value, 0, suffix_index))
    ELSE IF prefix_index >= 0 /\ suffix_index = 0 - 1
    THEN int(build, SliceFrom(value, prefix_index))
    ELSE IF prefix_index >= 0 /\ suffix_index >= 0
    THEN int(build, Slice(value, prefix_index, suffix_index))
    ELSE None

\* the return branches of TokenNumber.parse
parse_branches(build, value, prefix_index, suffix_index) ==
    IF prefix_index = 0 - 1 /\ suffix_index >= 0
    THEN int(build, Slice(value, 0, 0 - suffix_index))
    ELSE IF prefix_index >= 0 /\ suffix_index = 0 - 1
    THEN int(build, SliceFrom(value, prefix_index))
    ELSE IF prefix_index >= 0 /\ suffix_index >= 0
    THEN int(build, Slice(value, prefix_index, 0 - suffix_index))
    ELSE None

\* TokenNumber.parse (self is not read)
TokenNumber_parse(build, value) ==
    IF isdigit(value) THEN int(build, value)
    ELSE parse_branches(build, value, scan(value, 1, 0), scan(Reverse(value), 1, 0))

\* token.required for a Token or a TokenNumber
required(build, token) ==
    IF token.type = "TokenNumber" THEN Res(token, PyBool(TRUE))
    ELSE Token_required(build, token)

\* token.is_number
is_number(token) == token.type = "TokenNumber"

----------------------------------------------------------------------------
(* naming.py: the functions of the token registry *)

\* the loop of add_token over the iterated kwargs from position i
RECURSIVE add_token_loop(_, _, _)
add_token_loop(token, items, i) ==
    IF i > Len(items) THEN token
    ELSE IF PyEq(items[i].k, kDefault)
    THEN add_token_loop(Token_set_default(token, items[i].v), items, i + 1)
    ELSE add_token_loop(Token_add_option(token, items[i].k, items[i].v), items, i + 1)

\* add_token: the token it builds and registers under name
add_token(build, name, kwargs) == add_token_loop(Token(name), Items(build, kwargs), 1)

\* add_token_number: the token it builds
add_token_number(name, pre, pad, suf) ==
    Token_add_option(
        Token_add_option(Token_add_option(TokenNumber(name), kPrefix, pre), kPadding, pad),
        kSuffix, suf)

\* has_token
has_token(tokens, name) == name \in DOMAIN tokens

\* remove_token: the registry after the call
remove_token(tokens, name) ==
    IF has_token(tokens, name) THEN [n \in DOMAIN tokens \ {name} |-> tokens[n]] ELSE tokens

\* reg[name] = obj
Put(reg, name, obj) == [n \in DOMAIN reg \cup {name} |-> IF n = name THEN obj ELSE reg[n]]

\* the empty dict
Empty == [n \in {} |-> None]

----------------------------------------------------------------------------
(* naming.py: class Rule *)

\* Rule.__init__ with add_fields
Rule(name, fields) == [type |-> "Rule", _name |-> name, _fields |-> fields]

\* Rule.add_fields: the rule after the call; it returns True
Rule_add_fields(self, tokenNames) == [self EXCEPT !._fields = self._fields \o tokenNames]

\* Rule.name (setter)
Rule_set_name(self, n) == [self EXCEPT !._name = n]

\* str.split('_')
RECURSIVE Split(_)
Split(s) ==
    IF \A i \in 1..Len(s) : s[i] # "_" THEN <<s>>
    ELSE LET i == CHOOSE i \in 1..Len(s) :
                    s[i] = "_" /\ \A j \in 1..(i - 1) : s[j] # "_"
         IN  <<SubSeq(s, 1, i - 1)>> \o Split(SubSeq(s, i + 1, Len(s)))

\* the parts joined with '-' instead of '_'
RECURSIVE Join_dash(_)
Join_dash(parts) ==
    IF parts = <<>> THEN <<>>
    ELSE IF Len(parts) = 1 THEN parts[1]
    ELSE parts[1] \o <<"-">> \o Join_dash(Tail(parts))

\* '_'.join(parts)
RECURSIVE Join(_)
Join(parts) ==
    IF parts = <<>> THEN <<>>
    ELSE IF Len(parts) = 1 THEN parts[1]
    ELSE parts[1] \o <<"_">> \o Join(Tail(parts))

\* Rule._pattern: the type of '{' + '}_{'.join(self.fields) + '}', unicode as soon
\* as one field is
pattern_type(self) ==
    IF \E i \in 1..Len(self._fields) : self._fields[i].type = "unicode"
    THEN "unicode" ELSE "str"

\* Rule.solve: self._pattern.format(**values); values maps the text of a field to
\* its value, and the name has the type of the pattern
Rule_solve(self, values) ==
    IF \E i \in 1..Len(self._fields) : self._fields[i].type \notin {"str", "unicode"}
    THEN Raise("TypeError")    \* join of a field that is not a string
    ELSE IF self._fields = <<>> THEN Raise("IndexError")    \* '{}'.format()
    ELSE IF \E i \in 1..Len(self._fields) : self._fields[i].val \notin DOMAIN values
    THEN Raise("KeyError")
    ELSE [type |-> pattern_type(self),
          val |-> Join([i \in 1..Len(self._fields) |-> Format(values[self._fields[i].val])])]

\* the result of a function that may update the token registry
Out(tokens, val) == [tokens |-> tokens, val |-> val]

\* the loop of Rule.parse from field i, with the retval built so far; split_name
\* holds the parts of the name, each of the type of the name
RECURSIVE Rule_parse_loop(_, _, _, _, _, _)
Rule_parse_loop(build, tokens, fields, split_name, i, retval) ==
    IF i > Len(fields) THEN Out(tokens, [type |-> "dict", val |-> retval])
    ELSE IF i > Len(split_name) THEN Out(tokens, Raise("IndexError"))
    ELSE IF fields[i].val \notin DOMAIN tokens THEN Out(tokens, Raise("KeyError"))
    ELSE
      LET f == fields[i]
          name_part == split_name[i]
          req == required(build, tokens[f.val])
          tokens1 == Put(tokens, f.val, req.self)
      IN  IF IsRaise(req.val) THEN Out(tokens1, req.val)
          ELSE IF req.val.val
          THEN IF is_number(req.self)
               THEN LET n == TokenNumber_parse(build, name_part.val)
                    IN  IF IsRaise(n) THEN Out(tokens1, n)
                        ELSE Rule_parse_loop(build, tokens1, fields, split_name, i + 1,
                                             DictSet(retval, f, n))
               ELSE Rule_parse_loop(build, tokens1, fields, split_name, i + 1,
                                    DictSet(retval, f, name_part))
          ELSE Rule_parse_loop(build, tokens1, fields, split_name, i + 1,
                               DictSet(retval, f, Token_parse(build, req.self, name_part)))

\* Rule.parse
Rule_parse(build, tokens, self, name) ==
    LET parts == Split(name.val)
    IN  Rule_parse_loop(build, tokens, self._fields,
                        [i \in 1..Len(parts) |-> [type |-> name.type, val |-> parts[i]]],
                        1, <<>>)

----------------------------------------------------------------------------
(* naming.py: the functions of the rule registry *)

kActive == <<"_", "a", "c", "t", "i", "v", "e">>

\* reset_rules: the registry after the call, which is also the registry at import
reset_rules == [n \in {kActive} |-> None]

\* _rules.get(name) for any object name
rules_get(rules, name) ==
    IF name.type \in {"str", "unicode"} /\ name.val \in DOMAIN rules
    THEN rules[name.val] ELSE None

\* has_rule
has_rule(rules, name) == name \in DOMAIN rules

\* get_active_rule
get_active_rule(rules) ==
    IF kActive \notin DOMAIN rules THEN Raise("KeyError")
    ELSE rules_get(rules, rules[kActive])

\* set_active_rule: the registry after the call and the value returned.
\* name is any object: the conf file of a session holds null for no active rule
set_active_rule(rules, name) ==
    IF name.type \in {"str", "unicode"} /\ has_rule(rules, name.val)
    THEN [rules |-> Put(rules, kActive, name), val |-> PyBool(TRUE)]
    ELSE [rules |-> rules, val |-> PyBool(FALSE)]

\* add_rule: the registry after the call and the value returned
add_rule(rules, name, fields) ==
    LET rule == Rule(name, fields)
        rules1 == Put(rules, name.val, rule)
        active == get_active_rule(rules1)
    IN  IF IsRaise(active) THEN [rules |-> rules1, val |-> active]
        ELSE IF active = None
        THEN [rules |-> set_active_rule(rules1, name).rules, val |-> rule]
        ELSE [rules |-> rules1, val |-> rule]

\* remove_rule: the registry after the call and the value returned
remove_rule(rules, name) ==
    IF has_rule(rules, name)
    THEN [rules |-> [n \in DOMAIN rules \ {name} |-> rules[n]], val |-> PyBool(TRUE)]
    ELSE [rules |-> rules, val |-> PyBool(FALSE)]

\* get_rule
get_rule(rules, name) == rules_get(rules, name)

----------------------------------------------------------------------------
(* naming.py: the top-level solve and parse *)

\* kwargs.get(f)
kwargs_get(kwargs, f) == IF f \in DOMAIN kwargs THEN kwargs[f] ELSE None

\* the loop of solve from field number j, with i positional arguments used and the
\* values built so far
RECURSIVE solve_loop(_, _, _, _, _, _, _, _)
solve_loop(build, tokens, rule, args, kwargs, j, i, values) ==
    IF j > Len(rule._fields) THEN Out(tokens, Rule_solve(rule, values))
    ELSE IF rule._fields[j].val \notin DOMAIN tokens THEN Out(tokens, Raise("KeyError"))
    ELSE
      LET f == rule._fields[j].val
          token == tokens[f]
      IN  IF token.type = "TokenNumber"
          THEN IF kwargs_get(kwargs, f) # None
               THEN LET v == TokenNumber_solve(token, kwargs[f])
                    IN  IF IsRaise(v) THEN Out(tokens, v)
                        ELSE solve_loop(build, tokens, rule, args, kwargs, j + 1, i,
                                        Put(values, f, v))
               ELSE IF i >= Len(args) THEN Out(tokens, Raise("IndexError"))
               ELSE LET v == TokenNumber_solve(token, args[i + 1])
                    IN  IF IsRaise(v) THEN Out(tokens, v)
                        ELSE solve_loop(build, tokens, rule, args, kwargs, j + 1, i + 1,
                                        Put(values, f, v))
          ELSE
            LET req == Token_required(build, token)
                tokens1 == Put(tokens, f, req.self)
            IN  IF IsRaise(req.val) THEN Out(tokens1, req.val)
                ELSE IF req.val.val
                THEN IF kwargs_get(kwargs, f) # None
                     THEN solve_loop(build, tokens1, rule, args, kwargs, j + 1, i,
                                     Put(values, f, kwargs[f]))
                     ELSE IF i >= Len(args) THEN Out(tokens1, Raise("IndexError"))
                     ELSE solve_loop(build, tokens1, rule, args, kwargs, j + 1, i + 1,
                                     Put(values, f, args[i + 1]))
                ELSE LET r == Token_solve(build, req.self, kwargs_get(kwargs, f))
                         tokens2 == Put(tokens, f, r.self)
                     IN  IF IsRaise(r.val) THEN Out(tokens2, r.val)
                         ELSE solve_loop(build, tokens2, rule, args, kwargs, j + 1, i,
                                         Put(values, f, r.val))

\* solve with the positional counter started at one instead of zero
solve_from_one(build, rules, tokens, args, kwargs) ==
    LET rule == get_active_rule(rules)
    IN  IF IsRaise(rule) THEN Out(tokens, rule)
        ELSE IF rule.type # "Rule" THEN Out(tokens, Raise("AttributeError"))
        ELSE solve_loop(build, tokens, rule, args, kwargs, 1, 1, Empty)

\* solve(*args, **kwargs)
solve(build, rules, tokens, args, kwargs) ==
    LET rule == get_active_rule(rules)
    IN  IF IsRaise(rule) THEN Out(tokens, rule)
        ELSE IF rule.type # "Rule" THEN Out(tokens, Raise("AttributeError"))
        ELSE solve_loop(build, tokens, rule, args, kwargs, 1, 0, Empty)

\* parse(name)
parse(build, rules, tokens, name) ==
    LET rule == get_active_rule(rules)
    IN  IF IsRaise(rule) THEN Out(tokens, rule)
        ELSE IF rule.type # "Rule" THEN Out(tokens, Raise("AttributeError"))
        ELSE Rule_parse(build, tokens, rule, name)

----------------------------------------------------------------------------
(* json.dump and json.load of the values the package stores *)

\* json.dump of one value: the JSON value written
JsonDump(x) ==
    CASE x.type \in {"str", "unicode"} -> [j |-> "string", val |-> x.val]
      [] x.type = "int" -> [j |-> "number", val |-> x.val]
      [] x.type = "bool" -> [j |-> IF x.val THEN "true" ELSE "false"]
      [] OTHER -> [j |-> "null"]

\* json.load of one value: Python 2 reads every string as unicode
JsonLoad(build, v) ==
    CASE v.j = "string" -> IF build.version = 2 THEN PyUnicode(v.val) ELSE PyStr(v.val)
      [] v.j = "number" -> PyInt(v.val)
      [] v.j = "true" -> PyBool(TRUE)
      [] v.j = "false" -> PyBool(FALSE)
      [] OTHER -> None

\* json.dump of one attribute of an object; the key of a JSON object is a text
AttrDump(attr, x) ==
    CASE attr = "_options" ->
            [i \in 1..Len(x) |-> [k |-> x[i].k.val, v |-> JsonDump(x[i].v)]]
      [] attr = "_fields" -> [i \in 1..Len(x) |-> JsonDump(x[i])]
      [] attr = "_is_number" -> x
      [] OTHER -> JsonDump(x)   \* _name, _default

\* json.load of one attribute of an object: Python 2 reads the keys of a JSON
\* object as unicode too
AttrLoad(build, attr, x) ==
    CASE attr = "_options" ->
            [i \in 1..Len(x) |->
                [k |-> JsonLoad(build, [j |-> "string", val |-> x[i].k]),
                 v |-> JsonLoad(build, x[i].v)]]
      [] attr = "_fields" -> [i \in 1..Len(x) |-> JsonLoad(build, x[i])]
      [] attr = "_is_number" -> x
      [] OTHER -> JsonLoad(build, x)

\* a file that json.load reads: the JSON object in it
JsonFile(data) == [kind |-> "json", data |-> data]

\* the file open(filepath, "w") leaves when nothing is written to it
EmptyFile == [kind |-> "empty"]

----------------------------------------------------------------------------
(* naming.py: class Serializable *)

\* Serializable.data, as json.dump writes it
data(self) ==
    [_Serializable_classname |-> self.type,
     _Serializable_version |-> "1.0",
     attrs |-> [a \in DOMAIN self \ {"type"} |-> AttrDump(a, self[a])]]

\* cls(None) of from_data, for Rule cls(None, [None])
construct(cls) ==
    CASE cls = "Rule" -> Rule(None, <<None>>)
      [] cls = "TokenNumber" -> TokenNumber(None)
      [] OTHER -> Token(None)

\* Serializable.from_data of the JSON object d that json.load read
from_data(build, cls, d) ==
    IF d._Serializable_classname # cls THEN None
    ELSE LET this == construct(cls)
         IN  [a \in DOMAIN this \cup DOMAIN d.attrs |->
                 IF a \in DOMAIN d.attrs THEN AttrLoad(build, a, d.attrs[a]) ELSE this[a]]

----------------------------------------------------------------------------
(* naming.py: the session directory *)

TokenFile(name) == <<name, "token">>
RuleFile(name) == <<name, "rule">>
ConfFile == <<<<"n", "a", "m", "i", "n", "g">>, "conf">>
\* a path that is not in the directory
MissingFile == TokenFile(<<"z", "z">>)

\* get_token
get_token(tokens, name) == IF name \in DOMAIN tokens THEN tokens[name] ELSE None

\* save_token(name, filepath): the directory after the call and the value returned
save_token(tokens, dsk, name, filepath) ==
    LET token == get_token(tokens, name)
    IN  IF ~Truthy(token) THEN [disk |-> dsk, val |-> PyBool(FALSE)]
        ELSE [disk |-> Put(dsk, filepath, JsonFile(data(token))), val |-> PyBool(TRUE)]

\* save_rule(name, filepath): the directory after the call and the value returned.
\* get_rule returns whatever _rules holds under name, the active pointer included:
\* the file is opened before data() is called on it
save_rule(rules, dsk, name, filepath) ==
    LET rule == get_rule(rules, name)
    IN  IF ~Truthy(rule) THEN [disk |-> dsk, val |-> PyBool(FALSE)]
        ELSE IF rule.type # "Rule"
        THEN [disk |-> Put(dsk, filepath, EmptyFile), val |-> Raise("AttributeError")]
        ELSE [disk |-> Put(dsk, filepath, JsonFile(data(rule))), val |-> PyBool(TRUE)]

\* load_token: the registry after the call and the value returned
load_token(build, tokens, dsk, file) ==
    IF file \notin DOMAIN dsk THEN Out(tokens, PyBool(FALSE))
    ELSE IF dsk[file].kind # "json" THEN Out(tokens, PyBool(FALSE))
    ELSE LET d == dsk[file].data
             token == IF d._Serializable_classname = "TokenNumber"
                      THEN from_data(build, "TokenNumber", d)
                      ELSE from_data(build, "Token", d)
         IN  IF token = None THEN Out(tokens, Raise("AttributeError"))
             ELSE Out(Put(tokens, token._name.val, token), PyBool(TRUE))

\* load_rule: the registry after the call and the value returned
load_rule(build, rules, dsk, file) ==
    IF file \notin DOMAIN dsk THEN [rules |-> rules, val |-> PyBool(FALSE)]
    ELSE IF dsk[file].kind # "json" THEN [rules |-> rules, val |-> PyBool(FALSE)]
    ELSE LET rule == from_data(build, "Rule", dsk[file].data)
         IN  IF rule = None THEN [rules |-> rules, val |-> Raise("AttributeError")]
             ELSE [rules |-> Put(rules, rule._name.val, rule), val |-> PyBool(TRUE)]

\* the names save_session saves: every token, and every entry of _rules that is a Rule
saved_tokens(tokens) == DOMAIN tokens
saved_rules(rules) == {n \in DOMAIN rules : rules[n].type = "Rule"}

\* save_session: the directory after the call and the value returned
save_session(rules, tokens, dsk) ==
    LET files == {TokenFile(n) : n \in saved_tokens(tokens)}
                 \cup {RuleFile(n) : n \in saved_rules(rules)}
        dsk1 == [f \in DOMAIN dsk \cup files |->
                    IF f \in files
                    THEN IF f[2] = "token" THEN save_token(tokens, dsk, f[1], f).disk[f]
                         ELSE save_rule(rules, dsk, PyStr(f[1]), f).disk[f]
                    ELSE dsk[f]]
        active == get_active_rule(rules)
    IN  IF IsRaise(active) THEN [disk |-> dsk1, val |-> active]
        ELSE IF active # None /\ active.type # "Rule"
        THEN [disk |-> dsk1, val |-> Raise("AttributeError")]
        ELSE LET config == [set_active_rule |->
                               IF active = None THEN [j |-> "null"]
                               ELSE JsonDump(active._name)]
             IN  [disk |-> Put(dsk1, ConfFile, JsonFile(config)), val |-> PyBool(TRUE)]

\* the result of a function that may update both registries
Out2(rules, tokens, val) == [rules |-> rules, tokens |-> tokens, val |-> val]

\* the loop of load_session over the files of the directory, in the order os.walk
\* lists them
RECURSIVE load_files(_, _, _, _, _, _)
load_files(build, rules, tokens, dsk, order, i) ==
    IF i > Len(order) THEN Out2(rules, tokens, PyBool(TRUE))
    ELSE IF order[i][2] = "token"
    THEN LET r == load_token(build, tokens, dsk, order[i])
         IN  IF IsRaise(r.val) THEN Out2(rules, r.tokens, r.val)
             ELSE load_files(build, rules, r.tokens, dsk, order, i + 1)
    ELSE IF order[i][2] = "rule"
    THEN LET r == load_rule(build, rules, dsk, order[i])
         IN  IF IsRaise(r.val) THEN Out2(r.rules, tokens, r.val)
             ELSE load_files(build, r.rules, tokens, dsk, order, i + 1)
    ELSE load_files(build, rules, tokens, dsk, order, i + 1)

\* load_session: both registries after the call and the value returned
load_session(build, rules, tokens, dsk, order) ==
    LET r == load_files(build, rules, tokens, dsk, order, 1)
    IN  IF IsRaise(r.val) THEN r
        ELSE IF ConfFile \notin DOMAIN dsk THEN r
        ELSE IF dsk[ConfFile].kind # "json" THEN Out2(r.rules, r.tokens, Raise("ValueError"))
        ELSE LET v == JsonLoad(build, dsk[ConfFile].data.set_active_rule)
             IN  Out2(set_active_rule(r.rules, v).rules, r.tokens, PyBool(TRUE))

\* the orders in which os.walk can list the token and rule files of the directory
WalkOrders(dsk) == Perms(DOMAIN dsk \ {ConfFile})

----------------------------------------------------------------------------
(* tokens.py: save_token and load_token. The Serializable that tokens.py    *)
(* imports is the class of naming.py, moved to a module of its own          *)

\* cls(None) of from_data, with the classes of tokens.py
tokens_construct(cls) ==
    IF cls = "TokenNumber" THEN tokens_TokenNumber(None) ELSE tokens_Token(None)

\* Serializable.from_data on a class of tokens.py
tokens_from_data(build, cls, d) ==
    IF d._Serializable_classname # cls THEN None
    ELSE LET this == tokens_construct(cls)
         IN  [a \in DOMAIN this \cup DOMAIN d.attrs |->
                 IF a \in DOMAIN d.attrs THEN AttrLoad(build, a, d.attrs[a]) ELSE this[a]]

\* save_token(name, filepath): the directory after the call and the value returned
tokens_save_token(tokens, dsk, name, filepath) ==
    LET token == get_token(tokens, name)
    IN  IF ~Truthy(token) THEN [disk |-> dsk, val |-> PyBool(FALSE)]
        ELSE [disk |-> Put(dsk, filepath, JsonFile(data(token))), val |-> PyBool(TRUE)]

\* load_token(filepath): the registry after the call and the value returned. The
\* class is found by eval of the class name the file holds, in the names of tokens.py
tokens_load_token(build, tokens, dsk, file) ==
    IF file \notin DOMAIN dsk THEN Out(tokens, PyBool(FALSE))
    ELSE IF dsk[file].kind # "json" THEN Out(tokens, PyBool(FALSE))
    ELSE LET class_name == dsk[file].data._Serializable_classname
         IN  IF class_name \notin {"Token", "TokenNumber"}
             THEN Out(tokens, Raise("NameError"))
             ELSE LET token == tokens_from_data(build, class_name, dsk[file].data)
                  IN  Out(Put(tokens, token._name.val, token), PyBool(TRUE))

----------------------------------------------------------------------------
(* What a client of the package does: one action per call *)

Ret(op, args, val) == [op |-> op, args |-> args, val |-> val]

\* the hash orders the running interpreter can have
HashOrders(version) == IF version = 3 THEN {<<>>} ELSE Perms(IteratedKeys)
Build(h) == [version |-> py, hash |-> h]

sL == PyStr(<<"L">>)
sR == PyStr(<<"R">>)
sV == PyStr(<<"v">>)
sEmpty == PyStr(<<>>)

\* the names the client uses
nR1 == <<"r", "1">>
nA == <<"a">>

\* the str objects of a sequence of texts
StrList(texts) == [i \in 1..Len(texts) |-> PyStr(texts[i])]

\* the inputs of the registry machine
RuleNames == {nR1, kActive}
TokenNames == {nA}
FieldLists == {<<nA>>, <<nA, nA>>}
Kwargs == {<<>>, <<[k |-> kLeft, v |-> sL]>>}
Paddings == 0..MaxPadding
SolveNames == {None, kLeft, kRight}
ParseValues == {sL, sR}
\* the names a client assigns to the name attribute of a token
NewNames == {nA, nR1}

\* the state after `import naming`
Init ==
    /\ py \in {2, 3}
    /\ _rules = reset_rules
    /\ _tokens = Empty
    /\ tokens_tokens = Empty
    /\ disk = Empty
    /\ ret = Ret("import", <<>>, None)
    /\ hist = Empty

AddRule ==
    \E name \in RuleNames, fields \in FieldLists :
        LET r == add_rule(_rules, PyStr(name), StrList(fields))
        IN  /\ _rules' = r.rules
            /\ ret' = Ret("add_rule", <<name, fields>>, r.val)
            /\ UNCHANGED <<hist, py, _tokens, tokens_tokens, disk>>

RemoveRule ==
    \E name \in RuleNames :
        LET r == remove_rule(_rules, name)
        IN  /\ _rules' = r.rules
            /\ ret' = Ret("remove_rule", <<name>>, r.val)
            /\ UNCHANGED <<hist, py, _tokens, tokens_tokens, disk>>

SetActiveRule ==
    \E name \in RuleNames :
        LET r == set_active_rule(_rules, PyStr(name))
        IN  /\ _rules' = r.rules
            /\ ret' = Ret("set_active_rule", <<name>>, r.val)
            /\ UNCHANGED <<hist, py, _tokens, tokens_tokens, disk>>

ResetRules ==
    /\ _rules' = reset_rules
    /\ ret' = Ret("reset_rules", <<>>, PyBool(TRUE))
    /\ UNCHANGED <<hist, py, _tokens, tokens_tokens, disk>>

GetActiveRule ==
    /\ ret' = Ret("get_active_rule", <<>>, get_active_rule(_rules))
    /\ UNCHANGED <<hist, py, _rules, _tokens, tokens_tokens, disk>>

AddToken ==
    \E name \in TokenNames, kwargs \in Kwargs, h \in HashOrders(py) :
        LET token == add_token(Build(h), PyStr(name), kwargs)
        IN  /\ _tokens' = Put(_tokens, name, token)
            /\ ret' = Ret("add_token", <<name, kwargs>>, token)
            /\ UNCHANGED <<hist, py, _rules, tokens_tokens, disk>>

AddTokenNumber ==
    \E name \in TokenNames, pad \in Paddings :
        LET token == add_token_number(PyStr(name), sV, PyInt(pad), sEmpty)
        IN  /\ _tokens' = Put(_tokens, name, token)
            /\ ret' = Ret("add_token_number", <<name, sV, pad, sEmpty>>, token)
            /\ UNCHANGED <<hist, py, _rules, tokens_tokens, disk>>

RemoveToken ==
    \E name \in TokenNames :
        /\ _tokens' = remove_token(_tokens, name)
        /\ ret' = Ret("remove_token", <<name>>, PyBool(has_token(_tokens, name)))
        /\ UNCHANGED <<hist, py, _rules, tokens_tokens, disk>>

ResetTokens ==
    /\ _tokens' = Empty
    /\ ret' = Ret("reset_tokens", <<>>, PyBool(TRUE))
    /\ UNCHANGED <<hist, py, _rules, tokens_tokens, disk>>

\* get_token(name).solve(arg) on a Token
TokenSolve ==
    \E name \in DOMAIN _tokens, arg \in SolveNames, h \in HashOrders(py) :
        /\ _tokens[name].type = "Token"
        /\ LET r == Token_solve(Build(h), _tokens[name], arg)
           IN  /\ _tokens' = Put(_tokens, name, r.self)
               /\ ret' = Ret("Token.solve", <<name, arg>>, r.val)
        /\ UNCHANGED <<hist, py, _rules, tokens_tokens, disk>>

\* get_token(name).parse(value) on a Token
TokenParse ==
    \E name \in DOMAIN _tokens, value \in ParseValues, h \in HashOrders(py) :
        /\ _tokens[name].type = "Token"
        /\ ret' = Ret("Token.parse", <<name, value>>,
                      Token_parse(Build(h), _tokens[name], value))
        /\ UNCHANGED <<hist, py, _rules, _tokens, tokens_tokens, disk>>

\* get_rule(name).add_fields(fields) on a registered Rule
RuleAddFields ==
    \E name \in DOMAIN _rules, fields \in FieldLists :
        /\ get_rule(_rules, PyStr(name)).type = "Rule"
        /\ Len(_rules[name]._fields) + Len(fields) <= MaxFields
        /\ _rules' = Put(_rules, name, Rule_add_fields(_rules[name], StrList(fields)))
        /\ ret' = Ret("Rule.add_fields", <<name, fields>>, PyBool(TRUE))
        /\ UNCHANGED <<hist, py, _tokens, tokens_tokens, disk>>

\* get_rule(name).name = n on a registered Rule
RuleSetName ==
    \E name \in DOMAIN _rules, n \in RuleNames :
        /\ get_rule(_rules, PyStr(name)).type = "Rule"
        /\ _rules' = Put(_rules, name, Rule_set_name(_rules[name], PyStr(n)))
        /\ ret' = Ret("Rule.name=", <<name, n>>, None)
        /\ UNCHANGED <<hist, py, _tokens, tokens_tokens, disk>>

\* get_token(name).add_option(key, value) on a Token
TokenAddOption ==
    \E name \in DOMAIN _tokens, key \in OptionKeys, value \in ParseValues :
        /\ _tokens[name].type = "Token"
        /\ _tokens' = Put(_tokens, name, Token_add_option(_tokens[name], key, value))
        /\ ret' = Ret("Token.add_option", <<name, key, value>>, None)
        /\ UNCHANGED <<hist, py, _rules, tokens_tokens, disk>>

\* get_token(name).default = d on a Token
TokenSetDefault ==
    \E name \in DOMAIN _tokens, d \in ParseValues :
        /\ _tokens[name].type = "Token"
        /\ _tokens' = Put(_tokens, name, Token_set_default(_tokens[name], d))
        /\ ret' = Ret("Token.default=", <<name, d>>, None)
        /\ UNCHANGED <<hist, py, _rules, tokens_tokens, disk>>

\* get_token(name).default on a Token or a TokenNumber
TokenGetDefault ==
    \E name \in DOMAIN _tokens, h \in HashOrders(py) :
        LET r == IF _tokens[name].type = "TokenNumber"
                 THEN TokenNumber_default(_tokens[name])
                 ELSE Token_default(Build(h), _tokens[name])
        IN  /\ _tokens' = Put(_tokens, name, r.self)
            /\ ret' = Ret("Token.default", <<name>>, r.val)
            /\ UNCHANGED <<hist, py, _rules, tokens_tokens, disk>>

\* get_token(name).name = n on a Token or a TokenNumber
TokenSetName ==
    \E name \in DOMAIN _tokens, n \in NewNames :
        /\ _tokens' = Put(_tokens, name, Token_set_name(_tokens[name], PyStr(n)))
        /\ ret' = Ret("Token.name=", <<name, n>>, None)
        /\ UNCHANGED <<hist, py, _rules, tokens_tokens, disk>>

\* get_token(name).padding = p on a TokenNumber
TokenNumberSetPadding ==
    \E name \in DOMAIN _tokens, p \in Paddings :
        /\ _tokens[name].type = "TokenNumber"
        /\ _tokens' = Put(_tokens, name, set_padding(_tokens[name], p))
        /\ ret' = Ret("TokenNumber.padding=", <<name, p>>, None)
        /\ UNCHANGED <<hist, py, _rules, tokens_tokens, disk>>

\* get_token(name).prefix = p on a TokenNumber
TokenNumberSetPrefix ==
    \E name \in DOMAIN _tokens, p \in {sV, sEmpty} :
        /\ _tokens[name].type = "TokenNumber"
        /\ _tokens' = Put(_tokens, name, set_prefix(_tokens[name], p))
        /\ ret' = Ret("TokenNumber.prefix=", <<name, p>>, None)
        /\ UNCHANGED <<hist, py, _rules, tokens_tokens, disk>>

\* get_token(name).suffix = s on a TokenNumber
TokenNumberSetSuffix ==
    \E name \in DOMAIN _tokens, suf \in {sV, sEmpty} :
        /\ _tokens[name].type = "TokenNumber"
        /\ _tokens' = Put(_tokens, name, set_suffix(_tokens[name], suf))
        /\ ret' = Ret("TokenNumber.suffix=", <<name, suf>>, None)
        /\ UNCHANGED <<hist, py, _rules, tokens_tokens, disk>>

SaveSession ==
    LET r == save_session(_rules, _tokens, disk)
    IN  /\ disk' = r.disk
        /\ ret' = Ret("save_session", <<>>, r.val)
        /\ UNCHANGED <<hist, py, _rules, _tokens, tokens_tokens>>

LoadSession ==
    \E order \in WalkOrders(disk) :
        LET r == load_session(Build(<<>>), _rules, _tokens, disk, order)
        IN  /\ _rules' = r.rules
            /\ _tokens' = r.tokens
            /\ ret' = Ret("load_session", <<>>, r.val)
            /\ UNCHANGED <<hist, py, tokens_tokens, disk>>

\* the paths in the directory that the client passes to save_token and to save_rule
TokenPaths == {TokenFile(nA), TokenFile(nR1)}
RulePaths == {RuleFile(nR1), RuleFile(kActive)}

\* save_token(name, filepath)
SaveToken ==
    \E name \in NewNames, file \in TokenPaths :
        LET r == save_token(_tokens, disk, name, file)
        IN  /\ disk' = r.disk
            /\ ret' = Ret("save_token", <<name, file>>, r.val)
            /\ UNCHANGED <<hist, py, _rules, _tokens, tokens_tokens>>

\* save_rule(name, filepath)
SaveRule ==
    \E name \in RuleNames, file \in RulePaths :
        LET r == save_rule(_rules, disk, PyStr(name), file)
        IN  /\ disk' = r.disk
            /\ ret' = Ret("save_rule", <<name, file>>, r.val)
            /\ UNCHANGED <<hist, py, _rules, _tokens, tokens_tokens>>

\* save_session(dir); reset_tokens(); reset_rules(); load_session(dir)
SaveResetLoad ==
    \E order \in WalkOrders(save_session(_rules, _tokens, disk).disk) :
        LET s == save_session(_rules, _tokens, disk)
            l == load_session(Build(<<>>), reset_rules, Empty, s.disk, order)
        IN  /\ disk' = s.disk
            /\ _rules' = IF IsRaise(s.val) THEN _rules ELSE l.rules
            /\ _tokens' = IF IsRaise(s.val) THEN _tokens ELSE l.tokens
            /\ ret' = Ret("save_reset_load", <<>>, IF IsRaise(s.val) THEN s.val ELSE l.val)
            /\ UNCHANGED <<hist, py, tokens_tokens>>

\* a client of the registries and of the objects registered
Next ==
    \/ AddRule \/ RemoveRule \/ SetActiveRule \/ ResetRules \/ GetActiveRule
    \/ AddToken \/ AddTokenNumber \/ RemoveToken \/ ResetTokens
    \/ TokenSolve \/ TokenParse
    \/ RuleAddFields \/ RuleSetName
    \/ TokenAddOption \/ TokenSetDefault \/ TokenGetDefault \/ TokenSetName
    \/ TokenNumberSetPadding \/ TokenNumberSetPrefix \/ TokenNumberSetSuffix

Spec == Init /\ [][Next]_vars

\* a client that registers and removes entities, and saves and loads the session
NextSession ==
    \/ AddRule \/ RemoveRule \/ SetActiveRule \/ ResetRules
    \/ AddToken \/ AddTokenNumber \/ ResetTokens
    \/ TokenParse
    \/ SaveSession \/ LoadSession \/ SaveResetLoad

SpecSession == Init /\ [][NextSession]_vars

----------------------------------------------------------------------------
(* Claims about the rule registry and the tokens (specification Spec) and  *)
(* about the session round trip (specification SpecSession)                *)

IsRule(x) == x.type = "Rule"

\* the names registered as rules, and the name of the active rule (None when
\* get_active_rule() returns None)
RegisteredRules(rules) == {n \in DOMAIN rules : IsRule(rules[n])}
ActiveOf(rules) == get_active_rule(rules)

\* the name under which the active rule is registered, when get_active_rule()
\* returns a Rule
ActiveName(rules) == rules[kActive].val

\* the texts of the keys of a dict, and of the fields of a rule
KeyTexts(d) == {d[i].k.val : i \in 1..Len(d)}
FieldTexts(rule) == [i \in 1..Len(rule._fields) |-> rule._fields[i].val]

\* two option dicts map the same keys to equal values
SameOptions(d, e) ==
    /\ KeyTexts(d) = KeyTexts(e)
    /\ \A key \in DictKeys(d) : PyEq(DictGet(d, key), DictGet(e, key))

\* get_active_rule() returns the rule of the same name, or the same value
SameActive(rules1, rules2) ==
    IF IsRule(ActiveOf(rules1))
    THEN IsRule(ActiveOf(rules2)) /\ ActiveName(rules1) = ActiveName(rules2)
    ELSE PyEq(ActiveOf(rules1), ActiveOf(rules2))

\* the registry (rules2, tokens2) is equivalent to (rules1, tokens1): the same token
\* names and options, the same rule names and fields, the same active rule
SameRegistry(rules1, tokens1, rules2, tokens2) ==
    /\ DOMAIN tokens1 = DOMAIN tokens2
    /\ \A n \in DOMAIN tokens1 :
          /\ tokens1[n].type = tokens2[n].type
          /\ SameOptions(tokens1[n]._options, tokens2[n]._options)
    /\ RegisteredRules(rules1) = RegisteredRules(rules2)
    /\ \A n \in RegisteredRules(rules1) : FieldTexts(rules1[n]) = FieldTexts(rules2[n])
    /\ SameActive(rules1, rules2)

\* C1: save_session(dir), reset_tokens(), reset_rules(), load_session(dir) completes
\* and leaves a registry equivalent to the one before the save: the same token names
\* and options, the same rule names and field orders, the same active rule.
C1_SessionRoundTrip ==
    [][ret'.op = "save_reset_load"
        => /\ ~IsRaise(ret'.val)
           /\ SameRegistry(_rules, _tokens, _rules', _tokens')]_vars

\* C8: add_rule(name, fields) makes the new rule the active rule when no rule is
\* active at the time of the call (get_active_rule() then returns that rule), and
\* when a rule of a different name is active it registers the new rule and leaves
\* the active rule unchanged.
C8_AddRuleActivates ==
    [][ret'.op = "add_rule"
        => LET name == ret'.args[1]
               rule == Rule(PyStr(name), StrList(ret'.args[2]))
               before == get_active_rule(_rules)
               after == get_active_rule(_rules')
           IN  /\ before = None => after = rule /\ ret'.val = rule
               /\ (IsRule(before) /\ ActiveName(_rules) # name)
                     => /\ after = before
                        /\ name \in DOMAIN _rules' /\ _rules'[name] = rule]_vars

\* C9: remove_rule(name) on the active rule returns true, removes only that rule
\* (other rules and all tokens stay) and get_active_rule() then returns None;
\* remove_rule on a name that is not a registered rule returns false and changes
\* nothing.
C9_RemoveRule ==
    [][ret'.op = "remove_rule"
        => LET name == ret'.args[1]
               before == get_active_rule(_rules)
           IN  /\ (IsRule(before) /\ ActiveName(_rules) = name)
                     => /\ ret'.val = PyBool(TRUE)
                        /\ RegisteredRules(_rules') = RegisteredRules(_rules) \ {name}
                        /\ \A n \in RegisteredRules(_rules') : _rules'[n] = _rules[n]
                        /\ _tokens' = _tokens
                        /\ get_active_rule(_rules') = None
               /\ name \notin RegisteredRules(_rules)
                     => ret'.val = PyBool(FALSE) /\ _rules' = _rules]_vars


\* the token a Token.solve or Token.parse call was made on, and whether the client
\* must supply its value: no default and no options
Callee == _tokens[ret.args[1]]
IsRequired(token) == token._default = None /\ token._options = <<>>

\* the positions of the options of token whose abbreviation equals value
Matches(token, value) ==
    {i \in 1..Len(token._options) : PyEq(token._options[i].v, value)}

\* C6: Token.solve reports misuse as an error: on a required Token, solve() with no
\* value raises a usage error and a non-empty fullName is returned unchanged; on a
\* non-required Token, solve(fullName) raises a lookup error that lists the valid
\* keys when fullName is not a key of options, and returns the mapped abbreviation
\* when it is.
C6_TokenSolveErrors ==
    ret.op = "Token.solve"
    => LET token == Callee
           name == ret.args[2]
       IN  /\ (IsRequired(token) /\ name = None)
                 => IsRaise(ret.val) /\ ret.val.exc = "Exception"
           /\ (IsRequired(token) /\ Truthy(name)) => ret.val = name
           /\ (~IsRequired(token) /\ Truthy(name) /\ ~DictHas(token._options, name))
                 => /\ IsRaise(ret.val) /\ ret.val.exc = "Exception"
                    /\ "options" \in DOMAIN ret.val
                    /\ ret.val.options = DictKeys(token._options)
           /\ (~IsRequired(token) /\ Truthy(name) /\ DictHas(token._options, name))
                 => ret.val = DictGet(token._options, name)

\* C7: Token.parse(value) returns the first-inserted full-name key whose
\* abbreviation equals value, and value itself (never None, never an error) when no
\* option has that abbreviation or the token has no options.
C7_TokenParse ==
    ret.op = "Token.parse"
    => LET token == Callee
           value == ret.args[2]
           m == Matches(token, value)
       IN  IF m = {} THEN ret.val = value
           ELSE ret.val = token._options[CHOOSE i \in m : \A j \in m : i <= j].k

----------------------------------------------------------------------------
(* A client that creates one TokenNumber, with either module, then solves   *)
(* numbers with it and parses the text it has just solved                   *)
(* (specification SpecNumber)                                               *)

\* every string of at most n characters of chars
RECURSIVE Strs(_, _)
Strs(chars, n) ==
    IF n = 0 THEN {<<>>}
    ELSE LET shorter == Strs(chars, n - 1)
         IN  shorter \cup {Append(t, c) : t \in shorter, c \in chars}

\* the prefixes and suffixes the client passes: a letter, the separator, a digit
AffixChars == {"v", "_", "7"}
AffixStrs == {PyStr(t) : t \in Strs(AffixChars, MaxAffixLen)}
\* Python 2 has a second text type
Affixes(version) ==
    AffixStrs \cup (IF version = 2 THEN {PyUnicode(t.val) : t \in AffixStrs} ELSE {})
PaddingArgs == (0 - 1)..MaxPadding
Numbers == (0 - 1)..MaxNumber

kVersion == <<"v", "e", "r", "s", "i", "o", "n">>

\* what the client asked for: the arguments of the add_token_number call, and the
\* number of the last solve call
Created(module, pre, suf, pad) ==
    [module |-> module, prefix |-> pre, suffix |-> suf, padding |-> pad, number |-> None]

\* tokens.py: add_token_number(name, prefix, suffix, padding), first call of the client
NumTokensCreate ==
    /\ ret.op = "import"
    /\ \E pre \in Affixes(py), suf \in Affixes(py), pad \in PaddingArgs :
          LET token == tokens_add_token_number(PyStr(kVersion), pre, suf, pad)
          IN  /\ tokens_tokens' = Put(tokens_tokens, kVersion, token)
              /\ ret' = Ret("tokens.add_token_number", <<kVersion, pre, suf, pad>>, token)
              /\ hist' = Created("tokens", pre, suf, pad)
    /\ UNCHANGED <<py, _rules, _tokens, disk>>

\* naming.py: add_token_number(name, prefix, padding, suffix), first call of the client
NumNamingCreate ==
    /\ ret.op = "import"
    /\ \E pre \in AffixStrs, suf \in AffixStrs, pad \in PaddingArgs :
          LET token == add_token_number(PyStr(kVersion), pre, PyInt(pad), suf)
          IN  /\ _tokens' = Put(_tokens, kVersion, token)
              /\ ret' = Ret("add_token_number", <<kVersion, pre, pad, suf>>, token)
              /\ hist' = Created("naming", pre, suf, pad)
    /\ UNCHANGED <<py, _rules, tokens_tokens, disk>>

\* tokens.py: get_token(name).solve(number)
NumTokensSolve ==
    /\ kVersion \in DOMAIN tokens_tokens
    /\ \E number \in Numbers :
          /\ ret' = Ret("tokens.TokenNumber.solve", <<kVersion, number>>,
                        tokens_TokenNumber_solve(tokens_tokens[kVersion], number))
          /\ hist' = [hist EXCEPT !.number = PyInt(number)]
    /\ UNCHANGED <<py, _rules, _tokens, tokens_tokens, disk>>

\* tokens.py: get_token(name).parse(value) of the text solve returned
NumTokensParse ==
    /\ ret.op = "tokens.TokenNumber.solve"
    /\ ret' = Ret("tokens.TokenNumber.parse", <<kVersion, ret.val>>,
                  tokens_TokenNumber_parse(Build(<<>>), ret.val.val))
    /\ UNCHANGED <<py, _rules, _tokens, tokens_tokens, disk, hist>>

\* naming.py: get_token(name).solve(number)
NumNamingSolve ==
    /\ kVersion \in DOMAIN _tokens
    /\ \E number \in Numbers :
          /\ ret' = Ret("TokenNumber.solve", <<kVersion, number>>,
                        TokenNumber_solve(_tokens[kVersion], PyInt(number)))
          /\ hist' = [hist EXCEPT !.number = PyInt(number)]
    /\ UNCHANGED <<py, _rules, _tokens, tokens_tokens, disk>>

\* naming.py: get_token(name).parse(value) of the text solve returned
NumNamingParse ==
    /\ ret.op = "TokenNumber.solve"
    /\ ~IsRaise(ret.val)
    /\ ret' = Ret("TokenNumber.parse", <<kVersion, ret.val>>,
                  TokenNumber_parse(Build(<<>>), ret.val.val))
    /\ UNCHANGED <<py, _rules, _tokens, tokens_tokens, disk, hist>>

NextNumber ==
    \/ NumTokensCreate \/ NumNamingCreate
    \/ NumTokensSolve \/ NumTokensParse
    \/ NumNamingSolve \/ NumNamingParse

SpecNumber == Init /\ [][NextNumber]_vars

NoDigit(t) == \A i \in 1..Len(t) : ~IsDigitChar(t[i])

\* a parse call has returned; the prefix and suffix the token then holds
NumberParsed == ret.op \in {"tokens.TokenNumber.parse", "TokenNumber.parse"}
OwnPrefix ==
    IF hist.module = "tokens" THEN tokens_prefix(tokens_tokens[kVersion])
    ELSE prefix(_tokens[kVersion])
OwnSuffix ==
    IF hist.module = "tokens" THEN tokens_suffix(tokens_tokens[kVersion])
    ELSE suffix(_tokens[kVersion])

\* C3, as stated: for any TokenNumber and any number n, parse(solve(n)) = n.
C3_ParseInvertsSolve == NumberParsed => ret.val = hist.number

\* C3, amended: for a TokenNumber whose own prefix and suffix hold no digit (empty
\* ones included) and any integer n >= 0, parse(solve(n)) = n.
C3_ParseInvertsSolveAffixesWithoutDigits ==
    (NumberParsed /\ hist.number.val >= 0 /\ NoDigit(OwnPrefix.val) /\ NoDigit(OwnSuffix.val))
        => ret.val = hist.number

\* a two-digit number came back through a prefix and a suffix that are not empty
C3_Witness ==
    /\ NumberParsed
    /\ OwnPrefix.val # <<>> /\ OwnSuffix.val # <<>>
    /\ NoDigit(OwnPrefix.val) /\ NoDigit(OwnSuffix.val)
    /\ hist.number.val >= 10
    /\ ret.val = hist.number

\* n in decimal, zero-padded on the left to at least width digits
Padded(n, width) == Zeros(width - Len(NatStr(n))) \o NatStr(n)

\* C4: for a TokenNumber registered with tokens.py's add_token_number(name, prefix,
\* suffix, padding), padding >= 1, solve(n) of an integer n >= 0 is the given
\* prefix, then the digits of n zero-padded to at least padding digits, then the
\* given suffix.
C4_SolveFormat ==
    (ret.op = "tokens.TokenNumber.solve" /\ hist.padding >= 1 /\ hist.number.val >= 0)
        => ret.val.val = hist.prefix.val \o Padded(hist.number.val, hist.padding)
                         \o hist.suffix.val

----------------------------------------------------------------------------
(* A client of tokens.py that creates a Token and then adds options, sets   *)
(* and reads its default, solves and parses (specification SpecTokens)      *)

kSide == <<"s", "i", "d", "e">>

Abbreviations == {sL, sR}
\* what a client assigns to default: the full name of an option or an abbreviation
DefaultArgs == {kLeft, kRight, sL, sR}

\* the value add_token's caller passes for the keyword of text key
KwargValues(key) ==
    IF key = kDefault.val THEN DefaultArgs
    ELSE IF key = kLeft.val THEN {sL} ELSE {sR}

\* the keyword arguments of an add_token call: some of left=, right=, default=, in
\* any order
RECURSIVE KwargsOver(_)
KwargsOver(order) ==
    IF order = <<>> THEN {<<>>}
    ELSE {<<[k |-> PyStr(order[1]), v |-> x]>> \o rest :
              x \in KwargValues(order[1]), rest \in KwargsOver(Tail(order))}
TokKwargs == UNION {KwargsOver(order) : order \in UNION {Perms(S) : S \in SUBSET IteratedKeys}}

\* the default the client set last, None when it never set one
Explicit(d) == [explicit |-> d]

\* add_token(name, **kwargs)
TokAddToken ==
    \E kwargs \in TokKwargs, h \in HashOrders(py) :
        LET token == tokens_add_token(Build(h), PyStr(kSide), kwargs)
        IN  /\ tokens_tokens' = Put(tokens_tokens, kSide, token)
            /\ ret' = Ret("tokens.add_token", <<kSide, kwargs>>, token)
            /\ hist' = Explicit(DictGet(kwargs, kDefault))
            /\ UNCHANGED <<py, _rules, _tokens, disk>>

\* get_token(name).add_option(key, value)
TokAddOption ==
    /\ kSide \in DOMAIN tokens_tokens
    /\ \E key \in OptionKeys, value \in Abbreviations :
          /\ tokens_tokens' = Put(tokens_tokens, kSide,
                                  tokens_Token_add_option(tokens_tokens[kSide], key, value))
          /\ ret' = Ret("tokens.Token.add_option", <<kSide, key, value>>, None)
    /\ UNCHANGED <<py, _rules, _tokens, disk, hist>>

\* get_token(name).default = d
TokSetDefault ==
    /\ kSide \in DOMAIN tokens_tokens
    /\ \E d \in DefaultArgs :
          /\ tokens_tokens' = Put(tokens_tokens, kSide,
                                  tokens_Token_set_default(tokens_tokens[kSide], d))
          /\ ret' = Ret("tokens.Token.default=", <<kSide, d>>, None)
          /\ hist' = Explicit(d)
    /\ UNCHANGED <<py, _rules, _tokens, disk>>

\* get_token(name).default
TokGetDefault ==
    /\ kSide \in DOMAIN tokens_tokens
    /\ \E h \in HashOrders(py) :
          LET r == tokens_Token_default(Build(h), tokens_tokens[kSide])
          IN  /\ tokens_tokens' = Put(tokens_tokens, kSide, r.self)
              /\ ret' = Ret("tokens.Token.default", <<kSide>>, r.val)
    /\ UNCHANGED <<py, _rules, _tokens, disk, hist>>

\* get_token(name).solve(name)
TokSolve ==
    /\ kSide \in DOMAIN tokens_tokens
    /\ \E arg \in SolveNames, h \in HashOrders(py) :
          LET r == tokens_Token_solve(Build(h), tokens_tokens[kSide], arg)
          IN  /\ tokens_tokens' = Put(tokens_tokens, kSide, r.self)
              /\ ret' = Ret("tokens.Token.solve", <<kSide, arg>>, r.val)
    /\ UNCHANGED <<py, _rules, _tokens, disk, hist>>

\* get_token(name).parse(value)
TokParse ==
    /\ kSide \in DOMAIN tokens_tokens
    /\ \E value \in ParseValues, h \in HashOrders(py) :
          ret' = Ret("tokens.Token.parse", <<kSide, value>>,
                     tokens_Token_parse(Build(h), tokens_tokens[kSide], value))
    /\ UNCHANGED <<py, _rules, _tokens, tokens_tokens, disk, hist>>

\* get_token(name).name = n
TokSetName ==
    /\ kSide \in DOMAIN tokens_tokens
    /\ \E n \in {kSide, nA} :
          /\ tokens_tokens' = Put(tokens_tokens, kSide,
                                  tokens_set_name(tokens_tokens[kSide], PyStr(n)))
          /\ ret' = Ret("tokens.Token.name=", <<kSide, n>>, None)
    /\ UNCHANGED <<py, _rules, _tokens, disk, hist>>

\* remove_token(name)
TokRemoveToken ==
    \E name \in {kSide, nA} :
        LET r == tokens_remove_token(tokens_tokens, name)
        IN  /\ tokens_tokens' = r.tokens
            /\ ret' = Ret("tokens.remove_token", <<name>>, r.val)
            /\ hist' = Empty
            /\ UNCHANGED <<py, _rules, _tokens, disk>>

\* reset_tokens()
TokResetTokens ==
    /\ tokens_tokens' = Empty
    /\ ret' = Ret("tokens.reset_tokens", <<>>, PyBool(TRUE))
    /\ hist' = Empty
    /\ UNCHANGED <<py, _rules, _tokens, disk>>

NextTokens ==
    \/ TokAddToken \/ TokAddOption \/ TokSetDefault \/ TokGetDefault
    \/ TokSolve \/ TokParse
    \/ TokSetName \/ TokRemoveToken \/ TokResetTokens

SpecTokens == Init /\ [][NextTokens]_vars

\* C5: Token.solve() with fullName omitted, on a Token that has options, returns
\* the abbreviation now mapped to the explicit default full-name key, and the
\* abbreviation of the first-inserted option when no default was ever set; after
\* any sequence of add_token, add_option, default assignments and default reads.
C5_SolveDefault ==
    (ret.op = "tokens.Token.solve" /\ ret.args[2] = None
        /\ tokens_tokens[kSide]._options # <<>>)
    => LET options == tokens_tokens[kSide]._options
       IN  /\ hist.explicit = None => ret.val = options[1].v
           /\ (hist.explicit # None /\ DictHas(options, hist.explicit))
                 => ret.val = DictGet(options, hist.explicit)

----------------------------------------------------------------------------
(* A client of naming.py that registers three tokens and a rule, solves a   *)
(* name and parses the name it solved (specification SpecSolve)             *)

kCategory == <<"c", "a", "t", "e", "g", "o", "r", "y">>
FieldNames == {kCategory, kSide, kVersion}

sChar == PyStr(<<"c", "h", "a", "r">>)

\* the prefixes of the numeric token: none, a letter, the separator, a digit
VersionPrefixes == {sEmpty} \cup {PyStr(<<c>>) : c \in AffixChars}

\* the rules the client activates: with and without an optional field, with a
\* field used twice
RuleFields ==
    {<<kCategory, kVersion>>, <<kCategory, kSide, kVersion>>,
     <<kSide, kVersion, kCategory>>, <<kCategory, kCategory>>, <<kVersion>>}

\* the positional arguments of a solve call
SolveArgValues == {sChar, sEmpty, PyInt(7), PyInt(0 - 1)}
SolveArgs == Strs(SolveArgValues, MaxArgs)

\* the named arguments of a solve call
KwValues(f) ==
    IF f = kCategory THEN {sChar, None}
    ELSE IF f = kSide THEN {kRight, None}
    ELSE {PyInt(7), None}
SolveKwargs ==
    UNION {{g \in [S -> {sChar, kRight, PyInt(7), None}] :
                \A f \in S : g[f] \in KwValues(f)} : S \in SUBSET FieldNames}

\* add_token("category"): a required raw Token
SolAddCategory ==
    /\ ret.op = "import"
    /\ \E h \in HashOrders(py) :
          LET token == add_token(Build(h), PyStr(kCategory), <<>>)
          IN  /\ _tokens' = Put(_tokens, kCategory, token)
              /\ ret' = Ret("add_token", <<kCategory, <<>>>>, token)
    /\ UNCHANGED <<py, _rules, tokens_tokens, disk, hist>>

\* add_token("side", left="L", right="R", default="L"): an optional Token
SolAddSide ==
    /\ ret.op = "add_token" /\ ret.args[1] = kCategory
    /\ \E h \in HashOrders(py) :
          LET kwargs == <<[k |-> kLeft, v |-> sL], [k |-> kRight, v |-> sR],
                          [k |-> kDefault, v |-> sL]>>
              token == add_token(Build(h), PyStr(kSide), kwargs)
          IN  /\ _tokens' = Put(_tokens, kSide, token)
              /\ ret' = Ret("add_token", <<kSide, kwargs>>, token)
    /\ UNCHANGED <<py, _rules, tokens_tokens, disk, hist>>

\* add_token_number("version", prefix=..., padding=...)
SolAddVersion ==
    /\ ret.op = "add_token" /\ ret.args[1] = kSide
    /\ \E pre \in VersionPrefixes :
          LET token == add_token_number(PyStr(kVersion), pre, PyInt(MaxPadding), sEmpty)
          IN  /\ _tokens' = Put(_tokens, kVersion, token)
              /\ ret' = Ret("add_token_number", <<kVersion, pre, MaxPadding, sEmpty>>, token)
    /\ UNCHANGED <<py, _rules, tokens_tokens, disk, hist>>

\* add_rule("r1", *fields), which activates the rule
SolAddRule ==
    /\ ret.op = "add_token_number"
    /\ \E fields \in RuleFields :
          LET r == add_rule(_rules, PyStr(nR1), StrList(fields))
          IN  /\ _rules' = r.rules
              /\ ret' = Ret("add_rule", <<nR1, fields>>, r.val)
    /\ UNCHANGED <<py, _tokens, tokens_tokens, disk, hist>>

\* solve(*args, **kwargs)
SolSolve ==
    /\ ret.op = "add_rule"
    /\ \E args \in SolveArgs, kwargs \in SolveKwargs, h \in HashOrders(py) :
          LET r == solve(Build(h), _rules, _tokens, args, kwargs)
          IN  /\ _tokens' = r.tokens
              /\ ret' = Ret("solve", <<args, kwargs>>, r.val)
              /\ hist' = [args |-> args, kwargs |-> kwargs]
    /\ UNCHANGED <<py, _rules, tokens_tokens, disk>>

\* parse(name) of the name solve returned
SolParse ==
    /\ ret.op = "solve" /\ ~IsRaise(ret.val)
    /\ \E h \in HashOrders(py) :
          LET r == parse(Build(h), _rules, _tokens, ret.val)
          IN  /\ _tokens' = r.tokens
              /\ ret' = Ret("parse", <<ret.val>>, r.val)
    /\ UNCHANGED <<py, _rules, tokens_tokens, disk, hist>>

NextSolve ==
    \/ SolAddCategory \/ SolAddSide \/ SolAddVersion \/ SolAddRule
    \/ SolSolve \/ SolParse

SpecSolve == Init /\ [][NextSolve]_vars

\* the fields of the active rule; a field is required when its token is numeric or
\* a Token with no default and no options
ActiveFields == FieldTexts(get_active_rule(_rules))
IsReqField(f) == _tokens[f].type = "TokenNumber" \/ IsRequired(_tokens[f])

\* two readings of "a named argument is given" for field f of the last solve call:
\* the keyword is present; the keyword is present with a value other than None
Present(f) == f \in DOMAIN hist.kwargs
Valued(f) == f \in DOMAIN hist.kwargs /\ hist.kwargs[f] # None

\* the number of the positional argument that field number j takes: one more than
\* the required fields before it that have no named argument
PosIndex(given(_), j) ==
    Cardinality({i \in 1..(j - 1) :
                    IsReqField(ActiveFields[i]) /\ ~given(ActiveFields[i])}) + 1

\* a required field without a named argument finds no positional argument left
RunsOut(given(_)) ==
    \E j \in 1..Len(ActiveFields) :
        /\ IsReqField(ActiveFields[j]) /\ ~given(ActiveFields[j])
        /\ PosIndex(given, j) > Len(hist.args)

\* the argument that field number j is assigned
Assigned(given(_), j) ==
    LET f == ActiveFields[j]
    IN  IF IsReqField(f)
        THEN IF given(f) THEN hist.kwargs[f] ELSE hist.args[PosIndex(given, j)]
        ELSE kwargs_get(hist.kwargs, f)

\* the text field number j contributes to the name
Piece(given(_), j) ==
    LET f == ActiveFields[j]
        v == Assigned(given, j)
    IN  IF _tokens[f].type = "TokenNumber" THEN TokenNumber_solve(_tokens[f], v).val
        ELSE IF IsReqField(f) THEN Format(v)
        ELSE Format(Token_solve(Build(<<>>), _tokens[f], v).val)

\* the last position at which the field of position j occurs in the rule
LastOf(j) ==
    CHOOSE i \in j..Len(ActiveFields) :
        /\ ActiveFields[i] = ActiveFields[j]
        /\ \A k \in (i + 1)..Len(ActiveFields) : ActiveFields[k] # ActiveFields[j]

\* solve fails when the positional arguments run out, and otherwise returns the
\* name made of the piece of every field (of its last occurrence when a field
\* occurs twice)
SolveAssigns(given(_)) ==
    ret.op = "solve"
    => IF RunsOut(given) THEN IsRaise(ret.val)
       ELSE ret.val = PyStr(Join([j \in 1..Len(ActiveFields) |-> Piece(given, LastOf(j))]))

\* C10, as stated: each required field takes its named argument when one is given
\* and otherwise the next unused positional argument; an optional Token takes its
\* value only from named arguments; solve fails when positional arguments run out.
C10_SolveAssignment == SolveAssigns(Present)

\* C10, amended: a named argument counts as given only when its value is not None;
\* a required field whose named argument is None takes the next positional argument.
C10_SolveAssignmentNotNone == SolveAssigns(Valued)

\* the third field took the first positional argument: the optional field before it
\* took none and the numeric field before it took its named argument
C10_Witness ==
    /\ ret.op = "solve" /\ ~IsRaise(ret.val)
    /\ ActiveFields = <<kSide, kVersion, kCategory>>
    /\ Valued(kVersion) /\ ~Present(kCategory) /\ Present(kSide)
    /\ Len(hist.args) = 1
    /\ Assigned(Valued, 3) = hist.args[1]

----------------------------------------------------------------------------
(* The name round trip (specification SpecSolve) *)

NoUnderscore(t) == \A i \in 1..Len(t) : t[i] # "_"

\* the value the client supplied for field number j of the solved name
Supplied(j) == Assigned(Valued, j)

\* a raw string without underscores for a raw Token, an integer for a TokenNumber
WellTyped(j) ==
    IF _tokens[ActiveFields[j]].type = "TokenNumber" THEN Supplied(j).type = "int"
    ELSE Supplied(j).type = "str" /\ NoUnderscore(Supplied(j).val)

\* parse has returned for a rule of required raw Tokens and TokenNumbers whose
\* values were supplied as the claim asks
RoundTripCase ==
    /\ ret.op = "parse"
    /\ \A j \in 1..Len(ActiveFields) : IsReqField(ActiveFields[j]) /\ WellTyped(j)

\* parse returned a mapping with exactly the fields of the rule, each mapped to the
\* value supplied
RoundTrips ==
    /\ ~IsRaise(ret.val)
    /\ KeyTexts(ret.val.val) = {ActiveFields[j] : j \in 1..Len(ActiveFields)}
    /\ \A j \in 1..Len(ActiveFields) :
          DictGet(ret.val.val, PyStr(ActiveFields[j])) = Supplied(j)

\* C2, as stated: for an active Rule of required raw Tokens and TokenNumbers and
\* any values supplied to solve (raw strings without underscores, integers),
\* parse(solve(values)) maps exactly the rule's fields to the values supplied.
C2_NameRoundTrip == RoundTripCase => RoundTrips

\* no field occurs twice; integers are not negative; the prefix and the suffix of
\* every TokenNumber hold no digit and no underscore
DistinctFields ==
    \A i, j \in 1..Len(ActiveFields) : ActiveFields[i] = ActiveFields[j] => i = j
PlainNumbers ==
    \A j \in 1..Len(ActiveFields) :
        _tokens[ActiveFields[j]].type = "TokenNumber"
        => LET token == _tokens[ActiveFields[j]]
           IN  /\ Supplied(j).val >= 0
               /\ NoDigit(prefix(token).val) /\ NoUnderscore(prefix(token).val)
               /\ NoDigit(suffix(token).val) /\ NoUnderscore(suffix(token).val)

\* C2, amended: the round trip holds when, besides, the rule's fields are distinct,
\* the integers are not negative and the prefix and suffix of every TokenNumber
\* hold no digit and no underscore.
C2_NameRoundTripPlain == (RoundTripCase /\ DistinctFields /\ PlainNumbers) => RoundTrips

\* a raw string given by position and a number came back through prefix "v"
C2_Witness ==
    /\ RoundTripCase /\ DistinctFields /\ PlainNumbers /\ RoundTrips
    /\ ActiveFields = <<kCategory, kVersion>>
    /\ prefix(_tokens[kVersion]) = sV
    /\ Len(hist.args) >= 1 /\ ~Valued(kCategory)
    /\ DictGet(ret.val.val, PyStr(kVersion)) = PyInt(7)

----------------------------------------------------------------------------
(* A client that creates one TokenNumber, with either module, then assigns  *)
(* and reads its padding (specification SpecPadding)                        *)

\* tokens.py: add_token_number(name, prefix, suffix, padding), first call of the client
PadTokensCreate ==
    /\ ret.op = "import"
    /\ \E pre \in Affixes(py), pad \in PaddingArgs :
          LET token == tokens_add_token_number(PyStr(kVersion), pre, sEmpty, pad)
          IN  /\ tokens_tokens' = Put(tokens_tokens, kVersion, token)
              /\ ret' = Ret("tokens.add_token_number", <<kVersion, pre, sEmpty, pad>>, token)
              /\ hist' = Created("tokens", pre, sEmpty, pad)
    /\ UNCHANGED <<py, _rules, _tokens, disk>>

\* naming.py: add_token_number(name, prefix, padding, suffix), first call of the client
PadNamingCreate ==
    /\ ret.op = "import"
    /\ \E pre \in AffixStrs, pad \in PaddingArgs :
          LET token == add_token_number(PyStr(kVersion), pre, PyInt(pad), sEmpty)
          IN  /\ _tokens' = Put(_tokens, kVersion, token)
              /\ ret' = Ret("add_token_number", <<kVersion, pre, pad, sEmpty>>, token)
              /\ hist' = Created("naming", pre, sEmpty, pad)
    /\ UNCHANGED <<py, _rules, tokens_tokens, disk>>

\* tokens.py: get_token(name).padding = p
PadTokensAssign ==
    /\ kVersion \in DOMAIN tokens_tokens
    /\ \E p \in PaddingArgs :
          /\ tokens_tokens' = Put(tokens_tokens, kVersion,
                                  tokens_set_padding(tokens_tokens[kVersion], p))
          /\ ret' = Ret("tokens.TokenNumber.padding=", <<kVersion, p>>, None)
          /\ hist' = [hist EXCEPT !.padding = p]
    /\ UNCHANGED <<py, _rules, _tokens, disk>>

\* naming.py: get_token(name).padding = p
PadNamingAssign ==
    /\ kVersion \in DOMAIN _tokens
    /\ \E p \in PaddingArgs :
          /\ _tokens' = Put(_tokens, kVersion, set_padding(_tokens[kVersion], p))
          /\ ret' = Ret("TokenNumber.padding=", <<kVersion, p>>, None)
          /\ hist' = [hist EXCEPT !.padding = p]
    /\ UNCHANGED <<py, _rules, tokens_tokens, disk>>

\* tokens.py: get_token(name).padding
PadTokensRead ==
    /\ kVersion \in DOMAIN tokens_tokens
    /\ ret' = Ret("tokens.TokenNumber.padding", <<kVersion>>,
                  tokens_padding(tokens_tokens[kVersion]))
    /\ UNCHANGED <<py, _rules, _tokens, tokens_tokens, disk, hist>>

\* naming.py: get_token(name).padding
PadNamingRead ==
    /\ kVersion \in DOMAIN _tokens
    /\ ret' = Ret("TokenNumber.padding", <<kVersion>>, padding(_tokens[kVersion]))
    /\ UNCHANGED <<py, _rules, _tokens, tokens_tokens, disk, hist>>

\* tokens.py: get_token(name).prefix = p
PadTokensSetPrefix ==
    /\ kVersion \in DOMAIN tokens_tokens
    /\ \E p \in Affixes(py) :
          /\ tokens_tokens' = Put(tokens_tokens, kVersion,
                                  tokens_set_prefix(tokens_tokens[kVersion], p))
          /\ ret' = Ret("tokens.TokenNumber.prefix=", <<kVersion, p>>, None)
    /\ UNCHANGED <<py, _rules, _tokens, disk, hist>>

\* tokens.py: get_token(name).suffix = s
PadTokensSetSuffix ==
    /\ kVersion \in DOMAIN tokens_tokens
    /\ \E suf \in Affixes(py) :
          /\ tokens_tokens' = Put(tokens_tokens, kVersion,
                                  tokens_set_suffix(tokens_tokens[kVersion], suf))
          /\ ret' = Ret("tokens.TokenNumber.suffix=", <<kVersion, suf>>, None)
    /\ UNCHANGED <<py, _rules, _tokens, disk, hist>>

\* naming.py: get_token(name).prefix = p
PadNamingSetPrefix ==
    /\ kVersion \in DOMAIN _tokens
    /\ \E p \in AffixStrs :
          /\ _tokens' = Put(_tokens, kVersion, set_prefix(_tokens[kVersion], p))
          /\ ret' = Ret("TokenNumber.prefix=", <<kVersion, p>>, None)
    /\ UNCHANGED <<py, _rules, tokens_tokens, disk, hist>>

\* naming.py: get_token(name).suffix = s
PadNamingSetSuffix ==
    /\ kVersion \in DOMAIN _tokens
    /\ \E suf \in AffixStrs :
          /\ _tokens' = Put(_tokens, kVersion, set_suffix(_tokens[kVersion], suf))
          /\ ret' = Ret("TokenNumber.suffix=", <<kVersion, suf>>, None)
    /\ UNCHANGED <<py, _rules, tokens_tokens, disk, hist>>

\* tokens.py: get_token(name).name = n, on a TokenNumber
PadTokensSetName ==
    \E name \in DOMAIN tokens_tokens, n \in NewNames :
        /\ tokens_tokens[name].type = "TokenNumber"
        /\ tokens_tokens' = Put(tokens_tokens, name,
                                tokens_TokenNumber_set_name(tokens_tokens[name], PyStr(n)))
        /\ ret' = Ret("tokens.TokenNumber.name=", <<name, n>>, None)
        /\ UNCHANGED <<py, _rules, _tokens, disk, hist>>

NextPadding ==
    \/ PadTokensCreate \/ PadNamingCreate
    \/ PadTokensAssign \/ PadNamingAssign
    \/ PadTokensRead \/ PadNamingRead
    \/ PadTokensSetPrefix \/ PadTokensSetSuffix
    \/ PadNamingSetPrefix \/ PadNamingSetSuffix
    \/ TokenGetDefault
    \/ PadTokensSetName

SpecPadding == Init /\ [][NextPadding]_vars

\* the padding the TokenNumber of the client holds
OwnPadding ==
    IF hist.module = "tokens" THEN tokens_padding(tokens_tokens[kVersion])
    ELSE padding(_tokens[kVersion])

\* C11: the padding of every TokenNumber is an integer >= 1 in every reachable
\* state, and it is 1 when the last request, made by assigning the padding
\* attribute or by passing padding to add_token_number, was 0 or negative.
C11_PaddingFloor ==
    (kVersion \in DOMAIN tokens_tokens \/ kVersion \in DOMAIN _tokens)
    => /\ OwnPadding.type = "int" /\ OwnPadding.val >= 1
       /\ hist.padding <= 0 => OwnPadding = PyInt(1)

----------------------------------------------------------------------------
(* A client that registers a token and a rule, may rename them, and saves   *)
(* the session or single files; a file of the directory is then deleted,    *)
(* garbled or overwritten with the file of the other entity; the client     *)
(* resets the registries, loads, and uses what it loaded. A client of       *)
(* tokens.py registers tokens, saves, resets and loads them                 *)
(* (specification SpecLoad)                                                 *)

\* what json.load cannot parse
Garbled == [kind |-> "text"]

\* add_token(name, **kwargs), first call of the client
LdAddToken ==
    /\ ret.op = "import"
    /\ \E name \in TokenNames, kwargs \in Kwargs, h \in HashOrders(py) :
          LET token == add_token(Build(h), PyStr(name), kwargs)
          IN  /\ _tokens' = Put(_tokens, name, token)
              /\ ret' = Ret("add_token", <<name, kwargs>>, token)
    /\ UNCHANGED <<py, _rules, tokens_tokens, disk, hist>>

\* get_token(name).name = n, before the rule is added
LdSetTokenName ==
    /\ ret.op = "add_token"
    /\ \E name \in DOMAIN _tokens, n \in NewNames :
          /\ _tokens' = Put(_tokens, name, Token_set_name(_tokens[name], PyStr(n)))
          /\ ret' = Ret("Token.name=", <<name, n>>, None)
    /\ UNCHANGED <<py, _rules, tokens_tokens, disk, hist>>

\* add_rule("r1", *fields)
LdAddRule ==
    /\ ret.op \in {"add_token", "Token.name="}
    /\ \E fields \in FieldLists :
          LET r == add_rule(_rules, PyStr(nR1), StrList(fields))
          IN  /\ _rules' = r.rules
              /\ ret' = Ret("add_rule", <<nR1, fields>>, r.val)
    /\ UNCHANGED <<py, _tokens, tokens_tokens, disk, hist>>

\* get_rule("r1").name = n, before the session is saved
LdSetRuleName ==
    /\ ret.op = "add_rule"
    /\ \E n \in RuleNames :
          /\ _rules' = Put(_rules, nR1, Rule_set_name(_rules[nR1], PyStr(n)))
          /\ ret' = Ret("Rule.name=", <<nR1, n>>, None)
    /\ UNCHANGED <<py, _tokens, tokens_tokens, disk, hist>>

\* save_session(dir)
LdSave ==
    /\ ret.op \in {"add_rule", "Rule.name="}
    /\ LET r == save_session(_rules, _tokens, disk)
       IN  /\ disk' = r.disk
           /\ ret' = Ret("save_session", <<>>, r.val)
    /\ UNCHANGED <<py, _rules, _tokens, tokens_tokens, hist>>

\* outside the package: a token or rule file of the directory is deleted, garbled,
\* or overwritten with the file of another entity
LdDamage ==
    /\ ret.op = "save_session"
    /\ \E f \in DOMAIN disk \ {ConfFile} :
          \/ /\ disk' = [g \in DOMAIN disk \ {f} |-> disk[g]]
             /\ ret' = Ret("damage", <<f, "deleted">>, None)
          \/ /\ disk' = [disk EXCEPT ![f] = Garbled]
             /\ ret' = Ret("damage", <<f, "garbled">>, None)
          \/ \E g \in DOMAIN disk \ {ConfFile, f} :
                /\ disk' = [disk EXCEPT ![f] = disk[g]]
                /\ ret' = Ret("damage", <<f, "overwritten">>, None)
    /\ UNCHANGED <<py, _rules, _tokens, tokens_tokens, hist>>

\* reset_tokens()
LdResetTokens ==
    /\ ret.op \in {"save_session", "damage", "save_token", "save_rule"}
    /\ _tokens' = Empty
    /\ ret' = Ret("reset_tokens", <<>>, PyBool(TRUE))
    /\ UNCHANGED <<py, _rules, tokens_tokens, disk, hist>>

\* reset_rules()
LdResetRules ==
    /\ ret.op = "reset_tokens"
    /\ _rules' = reset_rules
    /\ ret' = Ret("reset_rules", <<>>, PyBool(TRUE))
    /\ UNCHANGED <<py, _tokens, tokens_tokens, disk, hist>>

\* load_token(filepath)
LdLoadToken ==
    /\ ret.op = "reset_rules"
    /\ \E f \in (DOMAIN disk \ {ConfFile}) \cup {MissingFile} :
          LET r == load_token(Build(<<>>), _tokens, disk, f)
          IN  /\ _tokens' = r.tokens
              /\ ret' = Ret("load_token", <<f>>, r.val)
    /\ UNCHANGED <<py, _rules, tokens_tokens, disk, hist>>

\* load_rule(filepath)
LdLoadRule ==
    /\ ret.op = "reset_rules"
    /\ \E f \in (DOMAIN disk \ {ConfFile}) \cup {MissingFile} :
          LET r == load_rule(Build(<<>>), _rules, disk, f)
          IN  /\ _rules' = r.rules
              /\ ret' = Ret("load_rule", <<f>>, r.val)
    /\ UNCHANGED <<py, _tokens, tokens_tokens, disk, hist>>

\* load_session(dir)
LdLoadSession ==
    /\ ret.op = "reset_rules"
    /\ \E order \in WalkOrders(disk) :
          LET r == load_session(Build(<<>>), _rules, _tokens, disk, order)
          IN  /\ _rules' = r.rules
              /\ _tokens' = r.tokens
              /\ ret' = Ret("load_session", <<>>, r.val)
    /\ UNCHANGED <<py, tokens_tokens, disk, hist>>

\* the calls the client makes on what it loaded
Loaded == ret.op \in {"load_token", "load_rule", "load_session"}

\* get_token(name).parse(value) on a loaded Token
LdTokenParse ==
    /\ Loaded
    /\ \E name \in DOMAIN _tokens, value \in ParseValues, h \in HashOrders(py) :
          /\ _tokens[name].type = "Token"
          /\ ret' = Ret("Token.parse", <<name, value>>,
                        Token_parse(Build(h), _tokens[name], value))
    /\ UNCHANGED <<py, _rules, _tokens, tokens_tokens, disk, hist>>

\* solve(*args) with the loaded rule active
LdSolve ==
    /\ Loaded
    /\ \E args \in Strs({sChar}, MaxArgs), h \in HashOrders(py) :
          LET r == solve(Build(h), _rules, _tokens, args, Empty)
          IN  /\ _tokens' = r.tokens
              /\ ret' = Ret("solve", <<args, Empty>>, r.val)
    /\ UNCHANGED <<py, _rules, tokens_tokens, disk, hist>>

\* parse(name) of the name solve returned
LdParse ==
    /\ ret.op = "solve" /\ ~IsRaise(ret.val)
    /\ \E h \in HashOrders(py) :
          LET r == parse(Build(h), _rules, _tokens, ret.val)
          IN  /\ _tokens' = r.tokens
              /\ ret' = Ret("parse", <<ret.val>>, r.val)
    /\ UNCHANGED <<py, _rules, tokens_tokens, disk, hist>>

\* tokens.py: add_token(name, **kwargs), first call of a client of tokens.py
LdTokensAddToken ==
    /\ ret.op = "import"
    /\ \E kwargs \in Kwargs, h \in HashOrders(py) :
          LET token == tokens_add_token(Build(h), PyStr(kSide), kwargs)
          IN  /\ tokens_tokens' = Put(tokens_tokens, kSide, token)
              /\ ret' = Ret("tokens.add_token", <<kSide, kwargs>>, token)
    /\ UNCHANGED <<py, _rules, _tokens, disk, hist>>

\* tokens.py: add_token_number(name, prefix, suffix, padding)
LdTokensAddTokenNumber ==
    /\ ret.op \in {"import", "tokens.add_token"}
    /\ \E pre \in {p \in Affixes(py) : p.val = sV.val}, pad \in {0, MaxPadding} :
          LET token == tokens_add_token_number(PyStr(kVersion), pre, sEmpty, pad)
          IN  /\ tokens_tokens' = Put(tokens_tokens, kVersion, token)
              /\ ret' = Ret("tokens.add_token_number", <<kVersion, pre, sEmpty, pad>>, token)
    /\ UNCHANGED <<py, _rules, _tokens, disk, hist>>

\* tokens.py: get_token(name).name = n, before the token is saved
LdTokensSetName ==
    /\ ret.op \in {"tokens.add_token", "tokens.add_token_number"}
    /\ \E name \in DOMAIN tokens_tokens, n \in NewNames :
          LET token == tokens_tokens[name]
          IN  /\ tokens_tokens' = Put(tokens_tokens, name,
                                      IF token.type = "TokenNumber"
                                      THEN tokens_TokenNumber_set_name(token, PyStr(n))
                                      ELSE tokens_set_name(token, PyStr(n)))
              /\ ret' = Ret("tokens.name=", <<name, n>>, None)
    /\ UNCHANGED <<py, _rules, _tokens, disk, hist>>

\* tokens.py: save_token(name, filepath)
LdTokensSave ==
    /\ ret.op \in {"tokens.add_token", "tokens.add_token_number", "tokens.name=",
                    "tokens.save_token"}
    /\ \E name \in {kSide, kVersion, nA}, file \in {TokenFile(kSide), TokenFile(kVersion)} :
          LET r == tokens_save_token(tokens_tokens, disk, name, file)
          IN  /\ disk' = r.disk
              /\ ret' = Ret("tokens.save_token", <<name, file>>, r.val)
    /\ UNCHANGED <<py, _rules, _tokens, tokens_tokens, hist>>

\* tokens.py: reset_tokens()
LdTokensReset ==
    /\ ret.op = "tokens.save_token"
    /\ tokens_tokens' = Empty
    /\ ret' = Ret("tokens.reset_tokens", <<>>, PyBool(TRUE))
    /\ UNCHANGED <<py, _rules, _tokens, disk, hist>>

\* tokens.py: load_token(filepath)
LdTokensLoad ==
    /\ ret.op \in {"tokens.save_token", "tokens.reset_tokens", "tokens.load_token"}
    /\ \E file \in DOMAIN disk \cup {MissingFile} :
          LET r == tokens_load_token(Build(<<>>), tokens_tokens, disk, file)
          IN  /\ tokens_tokens' = r.tokens
              /\ ret' = Ret("tokens.load_token", <<file>>, r.val)
    /\ UNCHANGED <<py, _rules, _tokens, disk, hist>>

\* tokens.py: get_token(name).parse(value) on a loaded Token
LdTokensParse ==
    /\ ret.op = "tokens.load_token"
    /\ \E name \in DOMAIN tokens_tokens, value \in ParseValues, h \in HashOrders(py) :
          /\ tokens_tokens[name].type = "Token"
          /\ ret' = Ret("tokens.Token.parse", <<name, value>>,
                        tokens_Token_parse(Build(h), tokens_tokens[name], value))
    /\ UNCHANGED <<py, _rules, _tokens, tokens_tokens, disk, hist>>

NextLoad ==
    \/ LdAddToken \/ LdAddRule \/ LdSave \/ LdDamage
    \/ LdResetTokens \/ LdResetRules
    \/ LdLoadToken \/ LdLoadRule \/ LdLoadSession
    \/ LdTokenParse \/ LdSolve \/ LdParse
    \/ LdSetTokenName \/ LdSetRuleName
    \/ SaveToken \/ SaveRule
    \/ LdTokensAddToken \/ LdTokensAddTokenNumber \/ LdTokensSetName
    \/ LdTokensSave \/ LdTokensReset \/ LdTokensLoad \/ LdTokensParse

SpecLoad == Init /\ [][NextLoad]_vars

\* file f of the directory holds an entity that the loader of classes can load
Loadable(f, classes) ==
    /\ f \in DOMAIN disk
    /\ disk[f].kind = "json"
    /\ disk[f].data._Serializable_classname \in classes

ValidTokenFiles == {f \in DOMAIN disk : f[2] = "token" /\ Loadable(f, {"Token", "TokenNumber"})}
ValidRuleFiles == {f \in DOMAIN disk : f[2] = "rule" /\ Loadable(f, {"Rule"})}

\* C12: load_token / load_rule of a file that cannot be loaded (missing, malformed
\* JSON, or not an entity of the loader) returns false without raising and without
\* changing the registries; load_session does not raise, loads every valid token
\* and rule file of the directory, and then applies naming.conf.
C12_LoadIsolation ==
    [][/\ (ret'.op = "load_token" /\ ~Loadable(ret'.args[1], {"Token", "TokenNumber"}))
            => ret'.val = PyBool(FALSE) /\ _tokens' = _tokens /\ _rules' = _rules
       /\ (ret'.op = "load_rule" /\ ~Loadable(ret'.args[1], {"Rule"}))
            => ret'.val = PyBool(FALSE) /\ _tokens' = _tokens /\ _rules' = _rules
       /\ ret'.op = "load_session"
            => /\ ret'.val = PyBool(TRUE)
               /\ \A f \in ValidTokenFiles : disk[f].data.attrs._name.val \in DOMAIN _tokens'
               /\ \A f \in ValidRuleFiles :
                     disk[f].data.attrs._name.val \in RegisteredRules(_rules')
               /\ ConfFile \in DOMAIN disk
                     => LET name == disk[ConfFile].data.set_active_rule
                        IN  (name.j = "string" /\ name.val \in RegisteredRules(_rules'))
                               => get_active_rule(_rules') = _rules'[name.val]]_vars

----------------------------------------------------------------------------
(* The active pointer of the rule registry (specification Spec) *)

\* get_active_rule() completes and returns None, or a Rule that is registered under
\* the name the pointer holds
GoodPointer(rules) ==
    LET active == get_active_rule(rules)
    IN  /\ ~IsRaise(active)
        /\ active # None
              => /\ IsRule(active)
                 /\ rules[kActive].type \in {"str", "unicode"}
                 /\ rules[kActive].val \in RegisteredRules(rules)
                 /\ rules[rules[kActive].val] = active

\* C13: after any sequence of add_rule, remove_rule, set_active_rule and reset_rules
\* with arbitrary names, get_active_rule() completes without error and returns None
\* or a Rule registered under the active name; set_active_rule(n) returns true and
\* points at n only when a Rule named n is registered, and otherwise returns false
\* and leaves the pointer unchanged.
C13_ActivePointer ==
    [][/\ ret'.op \in {"add_rule", "remove_rule", "set_active_rule", "reset_rules",
                       "get_active_rule"}
            => GoodPointer(_rules')
       /\ ret'.op = "get_active_rule" => ~IsRaise(ret'.val)
       /\ ret'.op = "set_active_rule"
            => IF ret'.args[1] \in RegisteredRules(_rules)
               THEN /\ ret'.val = PyBool(TRUE)
                    /\ get_active_rule(_rules') = _rules[ret'.args[1]]
               ELSE ret'.val = PyBool(FALSE) /\ _rules' = _rules]_vars

====
